---------------------------- MODULE Spec2Model ----------------------------
(***************************************************************************)
(* A model of the analysis engine of tech-debt-score: the rules' scoring   *)
(* functions, the score aggregator, the metric extractor's AST walks, the  *)
(* duplication detector and its tokenizer.                                 *)
(*                                                                         *)
(* Numbers.  The program computes in IEEE doubles.  The model computes in  *)
(* exact rationals: a score is held in hundredths (the program rounds every *)
(* score to two decimals, so a score IS an integer number of hundredths),  *)
(* a weight is a fraction [num, den].  Rounding errors of the doubles (of  *)
(* the order of 1e-16) are outside the model.                              *)
(***************************************************************************)
EXTENDS Integers, Sequences, FiniteSets, TLC

VARIABLES
    \* --- calculateScore applied to a list of findings (pure function) ---
    scFindings,     \* the Finding[] handed to calculateScore
    scRule,         \* the rule whose calculateScore was applied
    scContext,      \* the context argument (NoContext or Context(totalFiles))
    scScore,        \* the returned score, in hundredths
    scAdds,         \* pushes made onto scFindings so far
    scPc            \* "idle" | "build" | "scored"

scoreVars == <<scFindings, scRule, scContext, scScore, scAdds, scPc>>

VARIABLES
    \* --- AnalysisService.analyze, from the rule loop to the overall score ---
    agRules,        \* this.rules: the rule ids, in registry order
    agWeights,      \* config.weights (NoWeights when the config has none)
    agTotalFiles,   \* filePaths.length
    agFindingCount, \* allFindings.length
    agRaw,          \* rawCategoryScores
    agCats,         \* categoryScores, the output of normalizeWeights
    agOverall,      \* overallScore, in hundredths
    agPc            \* "idle" | "rules" | "normalize" | "overall" | "done" | "failed"

aggVars == <<agRules, agWeights, agTotalFiles, agFindingCount, agRaw, agCats, agOverall, agPc>>

VARIABLES
    \* --- DuplicationDetector ---
    codeBlocks,     \* DuplicationDetector.codeBlocks
    dupAnalyzed,    \* function nodes handed to the detector so far
    dupMetrics,     \* what detectDuplicates returned
    dupPc           \* "idle" | "collect" | "detected"

dupVars == <<codeBlocks, dupAnalyzed, dupMetrics, dupPc>>

VARIABLES
    \* --- DependencyAnalyzer ---
    dependencyGraph,  \* DependencyAnalyzer.dependencyGraph, in insertion order
    depDeclared,      \* per analysed file, the module specifiers of its import declarations
    depImports,       \* import declarations read so far
    depResult,        \* what the search of detectCircularDependencies ended with
    depPc             \* "idle" | "collect" | "detected"

depVars == <<dependencyGraph, depDeclared, depImports, depResult, depPc>>

VARIABLES
    \* --- Rule.evaluate over a metric list ---
    rlMetrics,      \* the metrics handed to evaluate
    rlRule,         \* the rule evaluated
    rlFindings,     \* what evaluate returned
    rlPc            \* "idle" | "collect" | "evaluated"

ruleVars == <<rlMetrics, rlRule, rlFindings, rlPc>>

VARIABLES
    \* --- one call of AnalysisService.analyze, from the command line ---
    runConfig,        \* the rules of the service and config.weights
    runFiles,         \* what fileReader.scan returned, with what each file holds
    runIndex,         \* files the loop is done with
    runReads,         \* the paths handed to fileReader.read, in order
    runWarnings,      \* the paths a warning was printed for
    runMetrics,       \* allMetrics
    runBlocks,        \* dupDetector.codeBlocks
    runGraph,         \* depAnalyzer.dependencyGraph
    runCategories,    \* categoryScores, once normalized
    runEvaluated,     \* per rule.evaluate call, the metric collection it was handed
    runSeen,          \* per reporter, the findings it read from the report
    runReport,        \* the report built (NoReport before)
    runReporterCalls, \* calls of reporter.generate
    runOutcome,       \* "pending" | "resolved" | "rejected"
    runExit,          \* the status the process exited with (-1: running)
    runPc             \* "idle" | "start" | "files" | "reporting" | "settled" | "exited"

runVars == <<runConfig, runFiles, runIndex, runReads, runWarnings, runMetrics, runBlocks,
             runGraph, runCategories, runEvaluated, runSeen, runReport, runReporterCalls,
             runOutcome, runExit, runPc>>

VARIABLES
    \* --- DuplicationDetector.tokenize applied to two function texts ---
    tkSegments,     \* a function text, as lexical segments
    tkTokensA,      \* tokenize(the text)
    tkTokensB,      \* tokenize(the same text written without its comments)
    tkPc            \* "idle" | "write" | "tokenized"

tokVars == <<tkSegments, tkTokensA, tkTokensB, tkPc>>

VARIABLES
    \* --- MetricExtractor over one parsed file ---
    astTree,        \* the syntax tree: node i is astTree[i], node 1 the SourceFile
    astInserted,    \* nodes added to the tree since the initial state
    astMetrics,     \* MetricExtractor.metrics
    astPc           \* "idle" | "parsed" | "extracted"

astVars == <<astTree, astInserted, astMetrics, astPc>>

VARIABLES
    \* --- one MetricBuilder and the Metrics it returned ---
    mbHeap,         \* the objects allocated, by reference
    mbMetric,       \* MetricBuilder.metric: a reference
    mbReturned,     \* per build() that returned: the reference, and the fields read then
    mbCalls,        \* calls made on the builder
    mbPc            \* "idle" | "built"

builderVars == <<mbHeap, mbMetric, mbReturned, mbCalls, mbPc>>

VARIABLES
    \* --- two analyze calls on one AnalysisService ---
    twRuns,         \* per call, its locals
    twAnalyzers,    \* the analyzer pairs created, by reference
    twOverlap       \* a call took a step while the other was between scan and return

twoVars == <<twRuns, twAnalyzers, twOverlap>>

vars == <<scoreVars, aggVars, astVars, dupVars, tokVars, depVars, ruleVars, runVars, builderVars,
          twoVars>>

\* What an action of one component leaves alone: the other components.
notScore == <<aggVars, astVars, dupVars, tokVars, depVars, ruleVars, runVars, builderVars, twoVars>>
notAgg == <<scoreVars, astVars, dupVars, tokVars, depVars, ruleVars, runVars, builderVars, twoVars>>
notAst == <<scoreVars, aggVars, dupVars, tokVars, depVars, ruleVars, runVars, builderVars, twoVars>>
notDup == <<scoreVars, aggVars, astVars, tokVars, depVars, ruleVars, runVars, builderVars, twoVars>>
notTok == <<scoreVars, aggVars, astVars, dupVars, depVars, ruleVars, runVars, builderVars, twoVars>>
notDep == <<scoreVars, aggVars, astVars, dupVars, tokVars, ruleVars, runVars, builderVars, twoVars>>
notRule == <<scoreVars, aggVars, astVars, dupVars, tokVars, depVars, runVars, builderVars, twoVars>>
notRun == <<scoreVars, aggVars, astVars, dupVars, tokVars, depVars, ruleVars, builderVars, twoVars>>
notBuilder == <<scoreVars, aggVars, astVars, dupVars, tokVars, depVars, ruleVars, runVars, twoVars>>
notTwo == <<scoreVars, aggVars, astVars, dupVars, tokVars, depVars, ruleVars, runVars, builderVars>>

\* ------------------------------------------------------------------ bounds
MaxAdds == 2        \* pushes onto the findings list
BulkCount == 13     \* a push may add this many copies of a finding
MaxAny == 2         \* largest count in a "Found <n> usage(s)" message
MaxInserted == 2    \* nodes added to a syntax tree
MaxFunctions == 3   \* function nodes handed to the duplication detector
MaxSegments == 4    \* lexical segments of a tokenized text
MaxImports == 4     \* import declarations in the analysed files
MaxMetrics == 2      \* metrics handed to one evaluate call
MaxScan == 2         \* files a scan returns
MaxFiles == 3       \* largest totalFiles
MaxCalls == 5       \* calls on one MetricBuilder

\* --------------------------------------------------------------- arithmetic
Max(a, b) == IF a >= b THEN a ELSE b
Min(a, b) == IF a <= b THEN a ELSE b

\* Math.round(p / q) for q > 0: the nearest integer, halves towards +infinity.
MathRound(p, q) == (2 * p + q) \div (2 * q)

RECURSIVE SumSeq(_)
SumSeq(s) == IF s = <<>> THEN 0 ELSE Head(s) + SumSeq(Tail(s))

\* ------------------------------------------------------------------ findings
Severities == {"low", "medium", "high"}
\* The optional context argument { totalFiles }: absent, or present.
NoContext == [present |-> FALSE, totalFiles |-> 0]
Context(n) == [present |-> TRUE, totalFiles |-> n]

\* finding.message is either `Found <n> usage(s) of 'any' ...` or another text.
OtherMessage == [kind |-> "other", n |-> 0]
FoundMessage(n) == [kind |-> "found", n |-> n]

Finding(sev, msg) == [severity |-> sev, message |-> msg]

\* findings.reduce((sum, finding) => switch (finding.severity) ...)
SeverityPoints(findings, high, medium, low) ==
    SumSeq([i \in 1..Len(findings) |->
        CASE findings[i].severity = "high" -> high
          [] findings[i].severity = "medium" -> medium
          [] findings[i].severity = "low" -> low
          [] OTHER -> 0])

\* Math.max(0, 100 - finalPenalty), then Math.round(score * 100) / 100, for
\* finalPenalty = pnum / pden (pden > 0).  The result is in hundredths.
ScoreOfPenaltyUnclamped(pnum, pden) == MathRound(100 * (100 * pden - pnum), pden)
ScoreOfPenalty(pnum, pden) == MathRound(100 * Max(0, 100 * pden - pnum), pden)

HasFiles(context) == context.present /\ context.totalFiles > 0

\* (a slip: the penalty multiplied by the file count instead of divided)
DensityScoreMultiplied(rawPenalty, context, factor) ==
    IF HasFiles(context)
    THEN ScoreOfPenalty(rawPenalty * factor * context.totalFiles, 1)
    ELSE ScoreOfPenalty(rawPenalty, 1)

\* The density branch shared by the rules: density = rawPenalty / totalFiles,
\* finalPenalty = density * factor; otherwise finalPenalty = rawPenalty.
DensityScore(rawPenalty, context, factor) ==
    IF HasFiles(context)
    THEN ScoreOfPenalty(rawPenalty * factor, context.totalFiles)
    ELSE ScoreOfPenalty(rawPenalty, 1)

\* (a slip: the scale factor of another rule)
ComplexityRule_calculateScoreFactor20(findings, context) ==
    IF Len(findings) = 0 THEN 10000
    ELSE DensityScore(SeverityPoints(findings, 10, 5, 2), context, 20)

ComplexityRule_calculateScore(findings, context) ==
    IF Len(findings) = 0 THEN 10000
    ELSE DensityScore(SeverityPoints(findings, 10, 5, 2), context, 10)

SizeRule_calculateScore(findings, context) ==
    IF Len(findings) = 0 THEN 10000
    ELSE ScoreOfPenalty(SeverityPoints(findings, 8, 4, 2), 1)

\* match ? parseInt(match[1]) : 1, summed over the findings
TotalAnyUsages(findings) ==
    SumSeq([i \in 1..Len(findings) |->
        IF findings[i].message.kind = "found" THEN findings[i].message.n ELSE 1])

TypeSafetyRule_calculateScore(findings, context) ==
    IF Len(findings) = 0 THEN 10000
    ELSE LET rawPenalty == TotalAnyUsages(findings) * 3 IN
         IF HasFiles(context)
         THEN ScoreOfPenalty(rawPenalty * 1, context.totalFiles)
         ELSE ScoreOfPenalty(Min(100, rawPenalty), 1)

DuplicationRule_calculateScore(findings, context) ==
    IF Len(findings) = 0 THEN 10000
    ELSE DensityScore(SeverityPoints(findings, 15, 8, 4), context, 8)

CircularDependencyRule_calculateScore(findings, context) ==
    IF Len(findings) = 0 THEN 10000
    ELSE DensityScore(SeverityPoints(findings, 20, 12, 6), context, 10)

\* The earlier revisions of the two rules kept in the repository.
DuplicationRule_v1_calculateScore(findings, context) ==
    IF Len(findings) = 0 THEN 10000
    ELSE ScoreOfPenalty(SeverityPoints(findings, 15, 8, 4), 1)

CircularDependencyRule_v1_calculateScore(findings, context) ==
    IF Len(findings) = 0 THEN 10000
    ELSE DensityScore(SeverityPoints(findings, 20, 12, 6), context, 20)

\* The five rules of the registry, by rule.id
RuleIds == <<"complexity", "size", "type-safety", "duplication", "circular-dependency">>
\* ... and the earlier revisions of two of them
RuleVariants == {RuleIds[i] : i \in 1..Len(RuleIds)} \cup {"duplication-v1", "circular-dependency-v1"}

calculateScore(rule, findings, context) ==
    CASE rule = "complexity" -> ComplexityRule_calculateScore(findings, context)
      [] rule = "size" -> SizeRule_calculateScore(findings, context)
      [] rule = "type-safety" -> TypeSafetyRule_calculateScore(findings, context)
      [] rule = "duplication" -> DuplicationRule_calculateScore(findings, context)
      [] rule = "circular-dependency" -> CircularDependencyRule_calculateScore(findings, context)
      [] rule = "duplication-v1" -> DuplicationRule_v1_calculateScore(findings, context)
      [] rule = "circular-dependency-v1" -> CircularDependencyRule_v1_calculateScore(findings, context)

\* ------------------------------------------------------------ the aggregator
\* Weights are held in hundredths (0.30 is 30); a normalized weight is the
\* fraction num / den, all weights of one list over the same den.
WeightRecord(c, s, t, q, st) ==
    [present |-> TRUE, complexity |-> c, size |-> s, typeSafety |-> t,
     codeQuality |-> q, structure |-> st]
NoWeights == [present |-> FALSE, complexity |-> 0, size |-> 0, typeSafety |-> 0,
              codeQuality |-> 0, structure |-> 0]
DefaultWeights == WeightRecord(30, 25, 20, 15, 10)

RuleName(ruleId) ==
    CASE ruleId = "complexity" -> "Complexity Rule"
      [] ruleId = "size" -> "Size Rule"
      [] ruleId = "type-safety" -> "Type Safety Rule"
      [] ruleId = "duplication" -> "Code Duplication Rule"
      [] ruleId = "circular-dependency" -> "Circular Dependency Rule"
      [] OTHER -> "Unknown Rule"

\* (a slip: the last two categories exchanged)
getCategoryWeightSwapped(ruleId, configWeights) ==
    LET weights == IF configWeights.present THEN configWeights ELSE DefaultWeights IN
    CASE ruleId = "complexity" -> weights.complexity
      [] ruleId = "size" -> weights.size
      [] ruleId = "type-safety" -> weights.typeSafety
      [] ruleId = "duplication" -> weights.structure
      [] ruleId = "circular-dependency" -> weights.codeQuality
      [] OTHER -> 5

getCategoryWeight(ruleId, configWeights) ==
    LET weights == IF configWeights.present THEN configWeights ELSE DefaultWeights IN
    CASE ruleId = "complexity" -> weights.complexity
      [] ruleId = "size" -> weights.size
      [] ruleId = "type-safety" -> weights.typeSafety
      [] ruleId = "duplication" -> weights.codeQuality
      [] ruleId = "circular-dependency" -> weights.structure
      [] OTHER -> 5

\* A CategoryScore {name, score, weight}; a raw weight w is w / 100.
CategoryScore(name, score, num, den) ==
    [name |-> name, score |-> score, weight |-> [num |-> num, den |-> den]]

\* Lists handed to the aggregator hold weights over one common denominator.
CommonDen(categories) == IF Len(categories) = 0 THEN 1 ELSE categories[1].weight.den
WeightNumSum(categories) == SumSeq([i \in 1..Len(categories) |-> categories[i].weight.num])

\* (a slip: every weight divided by the number of categories)
normalizeWeightsByCount(categories) ==
    [i \in 1..Len(categories) |->
        [categories[i] EXCEPT !.weight =
            [num |-> categories[i].weight.num,
             den |-> categories[i].weight.den * Len(categories)]]]

normalizeWeights(categories) ==
    LET totalWeight == WeightNumSum(categories) IN
    IF totalWeight = 0
    THEN [i \in 1..Len(categories) |->
            [categories[i] EXCEPT !.weight = [num |-> 1, den |-> Len(categories)]]]
    ELSE [i \in 1..Len(categories) |->
            [categories[i] EXCEPT !.weight =
                [num |-> categories[i].weight.num, den |-> totalWeight]]]

Abs(x) == IF x < 0 THEN -x ELSE x

\* (a slip: the check never fires)
WeightSumInvalidNever(categories) == FALSE

\* Math.abs(totalWeight - 1.0) > 0.01
WeightSumInvalid(categories) ==
    100 * Abs(WeightNumSum(categories) - CommonDen(categories)) > CommonDen(categories)

WeightedSumNum(categories) ==
    SumSeq([i \in 1..Len(categories) |-> categories[i].score * categories[i].weight.num])

\* ScoreCalculator.calculateOverall, when it does not throw
calculateOverall(categories) ==
    MathRound(WeightedSumNum(categories), CommonDen(categories))

\* ------------------------------------------------------- the metric extractor
\* A syntax tree is a sequence of nodes; a node names its ts.SyntaxKind, the
\* operator token of a BinaryExpression, and its parent (0 for the SourceFile).
\* Nodes are numbered in source order, so a parent precedes its children.
\* A function-like node carries what extractFunctionMetrics reads besides the
\* subtree (line span, parameter count, `any` annotations); the SourceFile
\* carries its line count and its TODO / FIXME comment counts.
Node(kind, op, parent) ==
    [kind |-> kind, op |-> op, parent |-> parent,
     lines |-> 1, params |-> 0, anys |-> 0, todos |-> 0, fixmes |-> 0]

FunctionKinds ==
    {"FunctionDeclaration", "MethodDeclaration", "ArrowFunction",
     "FunctionExpression", "Constructor"}

\* (a slip: the catch clause left out of the registry)
COMPLEXITY_KINDS_NoCatch ==
    {"IfStatement", "ForStatement", "ForInStatement", "ForOfStatement",
     "WhileStatement", "DoStatement", "CaseClause", "ConditionalExpression"}

COMPLEXITY_KINDS ==
    {"IfStatement", "ForStatement", "ForInStatement", "ForOfStatement",
     "WhileStatement", "DoStatement", "CaseClause", "ConditionalExpression",
     "CatchClause"}

NESTING_KINDS ==
    {"Block", "IfStatement", "ForStatement", "ForInStatement", "ForOfStatement",
     "WhileStatement", "DoStatement", "SwitchStatement", "TryStatement"}

isFunctionNode(node) == node.kind \in FunctionKinds

\* ts.forEachChild(n, ...): the children of node n
Children(tree, n) == {i \in 1..Len(tree) : tree[i].parent = n}

FirstOf(set) == CHOOSE x \in set : \A y \in set : x <= y

\* countDecisionPoints(n): the increments made at n and below it
RECURSIVE countDecisionPoints(_, _), countDecisionPointsOver(_, _)
countDecisionPoints(tree, n) ==
    (IF tree[n].kind \in COMPLEXITY_KINDS THEN 1
     ELSE IF tree[n].kind = "BinaryExpression" /\ tree[n].op \in {"&&", "||"} THEN 1
     ELSE 0)
    + countDecisionPointsOver(tree, Children(tree, n))
countDecisionPointsOver(tree, set) ==
    IF set = {} THEN 0
    ELSE countDecisionPoints(tree, FirstOf(set))
            + countDecisionPointsOver(tree, set \ {FirstOf(set)})

\* (a slip: only the children of the function node are looked at)
calculateComplexityShallow(tree, n) ==
    1 + Cardinality({c \in Children(tree, n) : tree[c].kind \in COMPLEXITY_KINDS})

calculateComplexity(tree, n) == 1 + countDecisionPoints(tree, n)

\* traverse(n, depth): the largest currentDepth recorded at n and below it
\* (0 when none is recorded)
RECURSIVE traverse(_, _, _), traverseOver(_, _, _)
traverse(tree, n, depth) ==
    LET nests == tree[n].kind \in NESTING_KINDS
        currentDepth == IF nests THEN depth + 1 ELSE depth
    IN  Max(IF nests THEN currentDepth ELSE 0,
            traverseOver(tree, Children(tree, n), currentDepth))
traverseOver(tree, set, depth) ==
    IF set = {} THEN 0
    ELSE Max(traverse(tree, FirstOf(set), depth),
             traverseOver(tree, set \ {FirstOf(set)}, depth))

calculateNestingDepth(tree, n) == traverse(tree, n, 0)

getFunctionName(node) ==
    IF node.kind \in {"FunctionDeclaration", "MethodDeclaration"} THEN "name"
    ELSE IF node.kind = "Constructor" THEN "constructor"
    ELSE "anonymous function"

\* A Metric; `node` stands for its location: the node measured, or the start
\* line of a code block (0: no location)
Metric(name, value, filePath, node, context) ==
    [name |-> name, value |-> value, filePath |-> filePath, node |-> node, context |-> context]

\* the file the extractor was made for
ExtractorFilePath == "a.ts"

extractFunctionMetrics(tree, n) ==
    LET functionName == getFunctionName(tree[n])
        maxDepth == calculateNestingDepth(tree, n)
    IN  <<Metric("function-length", tree[n].lines, ExtractorFilePath, n, functionName)>>
        \o (IF tree[n].params > 0
            THEN <<Metric("parameter-count", tree[n].params, ExtractorFilePath, n, functionName)>> ELSE <<>>)
        \o <<Metric("cyclomatic-complexity", calculateComplexity(tree, n), ExtractorFilePath, n, functionName)>>
        \o (IF maxDepth > 0
            THEN <<Metric("nesting-depth", maxDepth, ExtractorFilePath, n, functionName)>> ELSE <<>>)
        \o (IF tree[n].anys > 0
            THEN <<Metric("any-usage", tree[n].anys, ExtractorFilePath, n, functionName)>> ELSE <<>>)

extractFileMetrics(tree) ==
    <<Metric("file-length", tree[1].lines, ExtractorFilePath, 0, "")>>
    \o (IF tree[1].todos > 0 THEN <<Metric("todo-comments", tree[1].todos, ExtractorFilePath, 0, "")>> ELSE <<>>)
    \o (IF tree[1].fixmes > 0 THEN <<Metric("fixme-comments", tree[1].fixmes, ExtractorFilePath, 0, "")>> ELSE <<>>)

RECURSIVE visit(_, _), visitOver(_, _)
visit(tree, n) ==
    (IF isFunctionNode(tree[n]) THEN extractFunctionMetrics(tree, n) ELSE <<>>)
    \o visitOver(tree, Children(tree, n))
visitOver(tree, set) ==
    IF set = {} THEN <<>>
    ELSE visit(tree, FirstOf(set)) \o visitOver(tree, set \ {FirstOf(set)})

extract(tree) == extractFileMetrics(tree) \o visit(tree, 1)

\* ---------------------------------------------------- the duplication detector
\* A text is a sequence of characters (one-character strings).
IsWhitespace(c) == c \in {" ", "\n", "\t"}
IsLineTerminator(c) == c \in {"\n", "\r"}

RECURSIVE DropWhitespace(_)
DropWhitespace(s) ==
    IF s # <<>> /\ IsWhitespace(Head(s)) THEN DropWhitespace(Tail(s)) ELSE s

\* code.replace(/\s+/g, ' ')
RECURSIVE NormalizeWhitespace(_)
NormalizeWhitespace(s) ==
    IF s = <<>> THEN <<>>
    ELSE IF IsWhitespace(Head(s)) THEN <<" ">> \o NormalizeWhitespace(DropWhitespace(s))
    ELSE <<Head(s)>> \o NormalizeWhitespace(Tail(s))

\* the positions j >= 3 of s where "*/" starts
BlockCommentEnds(s) == {j \in 3..(Len(s) - 1) : s[j] = "*" /\ s[j + 1] = "/"}

\* code.replace(/\/\*[\s\S]*?\*\//g, ''): from each "/*" through the first
\* "*/" after it; a "/*" that is never closed stays
RECURSIVE RemoveBlockComments(_)
RemoveBlockComments(s) ==
    IF s = <<>> THEN <<>>
    ELSE IF Len(s) >= 4 /\ s[1] = "/" /\ s[2] = "*" /\ BlockCommentEnds(s) # {}
    THEN RemoveBlockComments(SubSeq(s, FirstOf(BlockCommentEnds(s)) + 2, Len(s)))
    ELSE <<Head(s)>> \o RemoveBlockComments(Tail(s))

RECURSIVE DropToLineEnd(_)
DropToLineEnd(s) ==
    IF s # <<>> /\ ~IsLineTerminator(Head(s)) THEN DropToLineEnd(Tail(s)) ELSE s

\* code.replace(/\/\/.*/g, ''): from each "//" to the end of its line
RECURSIVE RemoveLineComments(_)
RemoveLineComments(s) ==
    IF s = <<>> THEN <<>>
    ELSE IF Len(s) >= 2 /\ s[1] = "/" /\ s[2] = "/"
    THEN RemoveLineComments(DropToLineEnd(s))
    ELSE <<Head(s)>> \o RemoveLineComments(Tail(s))

RECURSIVE Reverse(_)
Reverse(s) == IF s = <<>> THEN <<>> ELSE Append(Reverse(Tail(s)), Head(s))

\* String.prototype.trim
Trim(s) == Reverse(DropWhitespace(Reverse(DropWhitespace(s))))

tokenize(code) ==
    Trim(RemoveLineComments(RemoveBlockComments(NormalizeWhitespace(code))))

MIN_BLOCK_SIZE == 50

\* matrix[i][j] for j = 0..len2, given row i-1 (`prev`); position j + 1 of a
\* row holds column j
RECURSIVE LevenshteinRow(_, _, _, _)
LevenshteinRow(prev, c, str2, row) ==
    LET j == Len(row) IN
    IF j > Len(str2) THEN row
    ELSE LET cost == IF c = str2[j] THEN 0 ELSE 1 IN
         LevenshteinRow(prev, c, str2,
            Append(row, Min(Min(prev[j + 1] + 1, row[j] + 1), prev[j] + cost)))

\* The matrix grows by one row per character of str1; position i + 1 of
\* `matrix` holds row i
RECURSIVE LevenshteinRows(_, _, _)
LevenshteinRows(str1, str2, matrix) ==
    LET i == Len(matrix) IN
    IF i > Len(str1) THEN matrix[Len(str1) + 1][Len(str2) + 1]
    ELSE LevenshteinRows(str1, str2,
            Append(matrix, LevenshteinRow(matrix[i], str1[i], str2, <<i>>)))

levenshteinDistance(str1, str2) ==
    LevenshteinRows(str1, str2, << [j \in 1..(Len(str2) + 1) |-> j - 1] >>)

\* The similarity 1 - distance / maxLen, as the fraction num / den
calculateSimilarity(tokens1, tokens2) ==
    IF tokens1 = tokens2 THEN [num |-> 1, den |-> 1]
    ELSE LET maxLen == Max(Len(tokens1), Len(tokens2)) IN
         IF maxLen = 0 THEN [num |-> 1, den |-> 1]
         ELSE [num |-> maxLen - levenshteinDistance(tokens1, tokens2), den |-> maxLen]

\* similarity >= 0.85
AtLeastThreshold(similarity) == 100 * similarity.num >= 85 * similarity.den

\* The function texts the files hold.  Written with `a` and `b` for the
\* characters of the code:
Rep(c, n) == [i \in 1..n |-> c]
TextA == Rep("a", 25) \o <<" ">> \o Rep("a", 25)
\* ... TextA laid out with other whitespace
TextA2 == Rep("a", 25) \o <<"\n", " ", " ">> \o Rep("a", 25) \o <<"\n">>
\* ... 5 characters away from TextA, 5 from TextC
TextB == Rep("a", 25) \o <<" ">> \o Rep("a", 20) \o Rep("b", 5)
\* ... 10 characters away from TextA
TextC == Rep("a", 25) \o <<" ">> \o Rep("a", 15) \o Rep("b", 10)
\* ... unlike all of them
TextD == Rep("b", 25) \o <<" ">> \o Rep("b", 25)
\* ... one character short of the minimum size
TextShort == Rep("a", 24) \o <<" ">> \o Rep("a", 24)
TextPool == {TextA, TextA2, TextB, TextC, TextD, TextShort}

\* What tokenize and calculateSimilarity return on the pool, computed once and
\* kept as tables
TokenTable == {[text |-> t, tokens |-> tokenize(t)] : t \in TextPool}
TokensOf(text) == (CHOOSE r \in TokenTable : r.text = text).tokens
TokenStrings == {r.tokens : r \in TokenTable}
SimilarityTable ==
    {[tokens1 |-> p[1], tokens2 |-> p[2], similarity |-> calculateSimilarity(p[1], p[2])] :
        p \in TokenStrings \X TokenStrings}
SimilarityOf(tokens1, tokens2) ==
    (CHOOSE r \in SimilarityTable : r.tokens1 = tokens1 /\ r.tokens2 = tokens2).similarity

CodeBlock(filePath, tokens, startLine) ==
    [filePath |-> filePath, tokens |-> tokens, startLine |-> startLine,
     endLine |-> startLine, functionName |-> "name"]

\* (a slip: a block already matched is matched again)
DuplicatesOfSeenAgain(blocks, i, seen) ==
    {j \in (i + 1)..Len(blocks) :
        AtLeastThreshold(SimilarityOf(blocks[i].tokens, blocks[j].tokens))}

\* The blocks j > i not yet seen that are similar to block i
DuplicatesOf(blocks, i, seen) ==
    {j \in (i + 1)..Len(blocks) :
        /\ j \notin seen
        /\ AtLeastThreshold(SimilarityOf(blocks[i].tokens, blocks[j].tokens))}

DuplicationMetric(block1, duplicateCount) ==
    Metric("code-duplication", duplicateCount, block1.filePath, block1.startLine,
           IF block1.functionName # "" THEN block1.functionName ELSE "code block")

\* (a slip: matched blocks are not marked as seen)
RECURSIVE DetectFromNoSeen(_, _, _, _)
DetectFromNoSeen(blocks, i, seen, metrics) ==
    IF i > Len(blocks) THEN metrics
    ELSE LET dups == DuplicatesOf(blocks, i, {}) IN
         DetectFromNoSeen(blocks, i + 1, seen,
            IF dups # {} THEN Append(metrics, DuplicationMetric(blocks[i], Cardinality(dups)))
            ELSE metrics)

\* The outer loop of detectDuplicates from index i on
RECURSIVE DetectFrom(_, _, _, _)
DetectFrom(blocks, i, seen, metrics) ==
    IF i > Len(blocks) THEN metrics
    ELSE IF i \in seen THEN DetectFrom(blocks, i + 1, seen, metrics)
    ELSE LET dups == DuplicatesOf(blocks, i, seen) IN
         DetectFrom(blocks, i + 1, seen \cup dups,
            IF dups # {} THEN Append(metrics, DuplicationMetric(blocks[i], Cardinality(dups)))
            ELSE metrics)

detectDuplicates(blocks) == DetectFrom(blocks, 1, {}, <<>>)

\* What the same loop does to `seen`: for each Metric pushed, in order, the index
\* of block1 and the indices j for which duplicateCount++ and seen.add(j) ran
RECURSIVE MatchesFrom(_, _, _, _)
MatchesFrom(blocks, i, seen, matches) ==
    IF i > Len(blocks) THEN matches
    ELSE IF i \in seen THEN MatchesFrom(blocks, i + 1, seen, matches)
    ELSE LET dups == DuplicatesOf(blocks, i, seen) IN
         MatchesFrom(blocks, i + 1, seen \cup dups,
            IF dups # {} THEN Append(matches, [origin |-> i, counted |-> dups])
            ELSE matches)

detectedMatches(blocks) == MatchesFrom(blocks, 1, {}, <<>>)

\* ---------------------------------------------------- the dependency analyzer
\* A path is handled segment by segment; the path string is the segments
\* joined, each after a "/".
RECURSIVE JoinPath(_)
JoinPath(segments) ==
    IF segments = <<>> THEN "" ELSE "/" \o Head(segments) \o JoinPath(Tail(segments))

\* The files of the model: a project of packages (a/index.ts, ...) and one of
\* sibling files with a directory next to them
PackageFileSegments == {<<"p", "a", "index.ts">>, <<"p", "b", "index.ts">>, <<"p", "c", "index.ts">>}
SiblingFileSegments == {<<"d", "a.ts">>, <<"d", "b.ts">>, <<"d", "b", "index.ts">>}
FileSegments == PackageFileSegments \cup SiblingFileSegments
Segments(path) == CHOOSE segments \in FileSegments : JoinPath(segments) = path

\* The paths of the model, in the order string comparison gives them
PathOrder == <<"/d/a.ts", "/d/b.ts", "/d/b/index.ts",
               "/p/a/index.ts", "/p/b/index.ts", "/p/c/index.ts">>
PathRank(path) == CHOOSE k \in 1..Len(PathOrder) : PathOrder[k] = path
NoPath == ""

\* What an import declaration names, in a package and in a sibling file
ImportSpecifiers == {"../a", "../b", "../c", "fs"}
SiblingSpecifiers == {"./a", "./b", "fs"}
\* ... split at "/"
SpecifierSegments(importSpecifier) ==
    CASE importSpecifier = "../a" -> <<"..", "a">>
      [] importSpecifier = "../b" -> <<"..", "b">>
      [] importSpecifier = "../c" -> <<"..", "c">>
      [] importSpecifier = "./a" -> <<".", "a">>
      [] importSpecifier = "./b" -> <<".", "b">>
      [] importSpecifier = "fs" -> <<"fs">>

\* path.dirname
dirname(segments) == SubSeq(segments, 1, Len(segments) - 1)

\* path.resolve(dir, specifier) for an absolute dir
RECURSIVE resolve(_, _)
resolve(dir, specifier) ==
    IF specifier = <<>> THEN dir
    ELSE resolve(CASE Head(specifier) = "." -> dir
                   [] Head(specifier) = ".." -> dirname(dir)
                   [] OTHER -> Append(dir, Head(specifier)),
                 Tail(specifier))

\* Not relative: null.  Otherwise the loop over the extensions returns at the
\* first one starting with "/": resolve(dirname(fromFile), specifier) +
\* "/index.ts"
resolveImportPath(fromFile, importSpecifier) ==
    LET specifier == SpecifierSegments(importSpecifier) IN
    IF Head(specifier) \notin {".", ".."} THEN NoPath
    ELSE LET resolvedPath == resolve(dirname(Segments(fromFile)), specifier) IN
         JoinPath(resolvedPath) \o "/index.ts"

RECURSIVE ResolvedImports(_, _)
ResolvedImports(filePath, specifiers) ==
    IF specifiers = <<>> THEN <<>>
    ELSE LET importPath == resolveImportPath(filePath, Head(specifiers)) IN
         (IF importPath # NoPath THEN <<importPath>> ELSE <<>>)
            \o ResolvedImports(filePath, Tail(specifiers))

\* filePath.split('/'), the last part
getFileName(filePath) == LET parts == Segments(filePath) IN parts[Len(parts)]

GraphKeys(graph) == {graph[k].filePath : k \in 1..Len(graph)}
GraphGet(graph, filePath) == graph[CHOOSE k \in 1..Len(graph) : graph[k].filePath = filePath]

\* [...cycle].sort()
RECURSIVE SortInsert(_, _)
SortInsert(sorted, path) ==
    IF sorted = <<>> THEN <<path>>
    ELSE IF PathRank(path) < PathRank(Head(sorted)) THEN <<path>> \o sorted
    ELSE <<Head(sorted)>> \o SortInsert(Tail(sorted), path)
RECURSIVE SortPaths(_)
SortPaths(paths) ==
    IF paths = <<>> THEN <<>> ELSE SortInsert(SortPaths(Tail(paths)), Head(paths))

\* (a slip: the position after the one found)
IndexOfAfter(path, importPath) ==
    IF \E k \in 1..Len(path) : path[k] = importPath
    THEN FirstOf({k \in 1..Len(path) : path[k] = importPath}) + 1 ELSE 0

\* path.indexOf(importPath), 0 for -1
IndexOf(path, importPath) ==
    IF \E k \in 1..Len(path) : path[k] = importPath
    THEN FirstOf({k \in 1..Len(path) : path[k] = importPath}) ELSE 0

\* The state of one search.  `closed`, `emitted` and `lists` observe the search:
\* the import chains (from the file imported again to the file importing it) of
\* the cycles closed, of those a Metric was pushed for, and the `cycle` array
\* each of these Metrics was built from.
SearchStart ==
    [metrics |-> <<>>, visited |-> {}, recursionStack |-> {}, cycles |-> {},
     closed |-> <<>>, emitted |-> <<>>, lists |-> <<>>]

\* (a slip: every cycle found is reported, seen before or not)
FoundCycleNoKey(st, filePath, path, importPath) ==
    LET cycleStart == IndexOf(path, importPath) IN
    IF cycleStart = 0 THEN st
    ELSE LET cycle == Append(SubSeq(path, cycleStart, Len(path)), importPath)
             chain == Append(SubSeq(path, cycleStart, Len(path)), filePath)
         IN  [st EXCEPT !.closed = Append(@, chain),
                        !.emitted = Append(@, chain),
                        !.lists = Append(@, cycle),
                        !.metrics = Append(@,
                            Metric("circular-dependency", Len(cycle), filePath, 0,
                                   [k \in 1..Len(cycle) |-> getFileName(cycle[k])]))]

\* The branch "Found a cycle!" of dfs
FoundCycle(st, filePath, path, importPath) ==
    LET cycleStart == IndexOf(path, importPath) IN
    IF cycleStart = 0 THEN st
    ELSE LET cycle == Append(SubSeq(path, cycleStart, Len(path)), importPath)
             cycleKey == SortPaths(cycle)
             chain == Append(SubSeq(path, cycleStart, Len(path)), filePath)
             st1 == [st EXCEPT !.closed = Append(@, chain)]
         IN  IF cycleKey \in st.cycles THEN st1
             ELSE [st1 EXCEPT !.cycles = @ \cup {cycleKey},
                              !.emitted = Append(@, chain),
                              !.lists = Append(@, cycle),
                              !.metrics = Append(@,
                                  Metric("circular-dependency", Len(cycle), filePath, 0,
                                         [k \in 1..Len(cycle) |-> getFileName(cycle[k])]))]

\* dfs and its loop over node.imports.  A cycle key is the joined list of its
\* paths, so a key equals filePath only if it is the list of that one path.
RECURSIVE dfs(_, _, _, _), dfsImports(_, _, _, _, _)
dfs(graph, st, filePath, path) ==
    IF <<filePath>> \in st.cycles THEN st
    ELSE LET st1 == [st EXCEPT !.visited = @ \cup {filePath},
                               !.recursionStack = @ \cup {filePath}]
         IN  IF filePath \notin GraphKeys(graph)
             THEN [st1 EXCEPT !.recursionStack = @ \ {filePath}]
             ELSE LET st2 == dfsImports(graph, st1, filePath, path,
                                        GraphGet(graph, filePath).imports)
                  IN  [st2 EXCEPT !.recursionStack = @ \ {filePath}]

dfsImports(graph, st, filePath, path, imports) ==
    IF imports = <<>> THEN st
    ELSE LET importPath == Head(imports)
             st1 == IF importPath \notin st.visited
                    THEN dfs(graph, st, importPath, Append(path, filePath))
                    ELSE IF importPath \in st.recursionStack
                    THEN FoundCycle(st, filePath, path, importPath)
                    ELSE st
         IN  dfsImports(graph, st1, filePath, path, Tail(imports))

\* for (const filePath of this.dependencyGraph.keys())
RECURSIVE SearchFrom(_, _, _)
SearchFrom(graph, st, k) ==
    IF k > Len(graph) THEN st
    ELSE SearchFrom(graph,
            IF graph[k].filePath \notin st.visited
            THEN dfs(graph, st, graph[k].filePath, <<>>) ELSE st,
            k + 1)

detectCircularDependencies(graph) == SearchFrom(graph, SearchStart, 1)

\* ------------------------------------------------------------ Rule.evaluate
\* What FindingBuilder.build() returns for a metric: the severity, the message,
\* and where the metric was measured
BuiltFinding(ruleId, severity, message, metric) ==
    [severity |-> severity, message |-> message, ruleId |-> ruleId,
     filePath |-> metric.filePath, location |-> metric.node]

COMPLEXITY_THRESHOLD == 10
NESTING_THRESHOLD == 4

\* (a slip: the thresholds themselves reported)
ComplexityFindingsAtThreshold(metric) ==
    (IF metric.name = "cyclomatic-complexity" /\ metric.value >= COMPLEXITY_THRESHOLD
     THEN <<BuiltFinding("complexity", IF metric.value > 20 THEN "high" ELSE "medium",
                         OtherMessage, metric)>>
     ELSE <<>>)
    \o (IF metric.name = "nesting-depth" /\ metric.value >= NESTING_THRESHOLD
        THEN <<BuiltFinding("complexity", IF metric.value > 6 THEN "high" ELSE "medium",
                            OtherMessage, metric)>>
        ELSE <<>>)

\* The body of the loop of ComplexityRule.evaluate
ComplexityFindings(metric) ==
    (IF metric.name = "cyclomatic-complexity" /\ metric.value > COMPLEXITY_THRESHOLD
     THEN <<BuiltFinding("complexity", IF metric.value > 20 THEN "high" ELSE "medium",
                         OtherMessage, metric)>>
     ELSE <<>>)
    \o (IF metric.name = "nesting-depth" /\ metric.value > NESTING_THRESHOLD
        THEN <<BuiltFinding("complexity", IF metric.value > 6 THEN "high" ELSE "medium",
                            OtherMessage, metric)>>
        ELSE <<>>)

MAX_FILE_LINES == 300
MAX_FUNCTION_LINES == 50
MAX_PARAMETERS == 5

\* The body of the loop of SizeRule.evaluate
SizeFindings(metric) ==
    (IF metric.name = "file-length" /\ metric.value > MAX_FILE_LINES
     THEN <<BuiltFinding("size", IF metric.value > 500 THEN "high" ELSE "medium",
                         OtherMessage, [metric EXCEPT !.node = 0])>>
     ELSE <<>>)
    \o (IF metric.name = "function-length" /\ metric.value > MAX_FUNCTION_LINES
        THEN <<BuiltFinding("size", IF metric.value > 100 THEN "high" ELSE "medium",
                            OtherMessage, metric)>>
        ELSE <<>>)
    \o (IF metric.name = "parameter-count" /\ metric.value > MAX_PARAMETERS
        THEN <<BuiltFinding("size", "medium", OtherMessage, metric)>>
        ELSE <<>>)

\* The body of the loop of TypeSafetyRule.evaluate
TypeSafetyFindings(metric) ==
    IF metric.name = "any-usage" /\ metric.value > 0
    THEN <<BuiltFinding("type-safety", IF metric.value > 5 THEN "high" ELSE "medium",
                        FoundMessage(metric.value), metric)>>
    ELSE <<>>

\* The body of the loop of DuplicationRule.evaluate
DuplicationFindings(metric) ==
    IF metric.name = "code-duplication" /\ metric.value > 0
    THEN <<BuiltFinding("duplication",
                        IF metric.value > 5 THEN "high"
                        ELSE IF metric.value > 2 THEN "medium" ELSE "low",
                        OtherMessage, metric)>>
    ELSE <<>>

\* The body of the loop of CircularDependencyRule.evaluate
CircularDependencyFindings(metric) ==
    IF metric.name = "circular-dependency" /\ metric.value > 0
    THEN <<BuiltFinding("circular-dependency",
                        IF metric.value >= 4 THEN "high"
                        ELSE IF metric.value >= 3 THEN "medium" ELSE "low",
                        OtherMessage, [metric EXCEPT !.node = 0])>>
    ELSE <<>>

FindingsFor(rule, metric) ==
    CASE rule = "complexity" -> ComplexityFindings(metric)
      [] rule = "size" -> SizeFindings(metric)
      [] rule = "type-safety" -> TypeSafetyFindings(metric)
      [] rule = "duplication" -> DuplicationFindings(metric)
      [] rule = "circular-dependency" -> CircularDependencyFindings(metric)

\* rule.evaluate(metrics): the findings of the metrics, in the order of the
\* metrics
RECURSIVE evaluate(_, _)
evaluate(rule, metrics) ==
    IF metrics = <<>> THEN <<>>
    ELSE FindingsFor(rule, Head(metrics)) \o evaluate(rule, Tail(metrics))

\* ------------------------------------------- SpecScore: calculateScore applied
ScoreIdle ==
    /\ scFindings = <<>>
    /\ scRule = "none"
    /\ scContext = NoContext
    /\ scScore = 0
    /\ scAdds = 0
    /\ scPc = "idle"

ScoreInit ==
    /\ scFindings = <<>>
    /\ scRule = "none"
    /\ scContext = NoContext
    /\ scScore = 0
    /\ scAdds = 0
    /\ scPc = "build"

FindingChoices ==
    {Finding(sev, OtherMessage) : sev \in Severities}
        \cup {Finding(IF n > 5 THEN "high" ELSE "medium", FoundMessage(n)) : n \in 1..MaxAny}

Copies(f, k) == [i \in 1..k |-> f]

\* The caller builds the findings list: one finding, or a run of equal ones.
PushFindings ==
    /\ scPc = "build"
    /\ scAdds < MaxAdds
    /\ \E f \in FindingChoices, k \in {1, BulkCount} :
          scFindings' = scFindings \o Copies(f, k)
    /\ scAdds' = scAdds + 1
    /\ UNCHANGED <<scRule, scContext, scScore, scPc>>
    /\ UNCHANGED notScore

\* rule.calculateScore(findings, context?)
ApplyCalculateScore ==
    /\ scPc = "build"
    /\ \E rule \in RuleVariants, context \in {NoContext} \cup {Context(n) : n \in 0..MaxFiles} :
          /\ scRule' = rule
          /\ scContext' = context
          /\ scScore' = calculateScore(rule, scFindings, context)
    /\ scPc' = "scored"
    /\ UNCHANGED <<scFindings, scAdds>>
    /\ UNCHANGED notScore

ScoreNext == PushFindings \/ ApplyCalculateScore


\* --------------------------------- SpecAgg: analyze, rule loop to overall score
AggIdle ==
    /\ agRules = <<>>
    /\ agWeights = NoWeights
    /\ agTotalFiles = 0
    /\ agFindingCount = 0
    /\ agRaw = <<>>
    /\ agCats = <<>>
    /\ agOverall = 0
    /\ agPc = "idle"

\* The sub-sequences of the registry: any of the five rules may be absent.
RECURSIVE SubSeqs(_)
SubSeqs(s) ==
    IF s = <<>> THEN {<<>>}
    ELSE LET rest == SubSeqs(Tail(s)) IN rest \cup {<<Head(s)>> \o r : r \in rest}

\* config.weights: absent, or non-negative numbers that need not sum to 1.
WeightConfigs ==
    {NoWeights,
     DefaultWeights,
     WeightRecord(0, 0, 0, 0, 0),
     WeightRecord(100, 100, 100, 100, 100),
     WeightRecord(0, 0, 0, 0, 10),
     WeightRecord(33, 33, 33, 0, 0)}

\* What rule.evaluate(allMetrics) may return for one rule
FindingLists ==
    {<<>>,
     <<Finding("medium", FoundMessage(1))>>,
     Copies(Finding("high", FoundMessage(MaxAny)), BulkCount)}

AggInit ==
    /\ agRules \in SubSeqs(RuleIds)
    /\ agWeights \in WeightConfigs
    /\ agTotalFiles \in 0..MaxFiles
    /\ agFindingCount = 0
    /\ agRaw = <<>>
    /\ agCats = <<>>
    /\ agOverall = 0
    /\ agPc = "rules"

\* One iteration of `for (const rule of this.rules)`
RuleStep ==
    /\ agPc = "rules"
    /\ Len(agRaw) < Len(agRules)
    /\ LET rule == agRules[Len(agRaw) + 1] IN
       \E findings \in FindingLists :
          /\ agFindingCount' = agFindingCount + Len(findings)
          /\ agRaw' = Append(agRaw,
                CategoryScore(RuleName(rule),
                              calculateScore(rule, findings, Context(agTotalFiles)),
                              getCategoryWeight(rule, agWeights), 100))
    /\ UNCHANGED <<agRules, agWeights, agTotalFiles, agCats, agOverall, agPc>>
    /\ UNCHANGED notAgg

RuleLoopEnd ==
    /\ agPc = "rules"
    /\ Len(agRaw) = Len(agRules)
    /\ agPc' = "normalize"
    /\ UNCHANGED <<agRules, agWeights, agTotalFiles, agFindingCount, agRaw, agCats, agOverall>>
    /\ UNCHANGED notAgg

\* const categoryScores = this.normalizeWeights(rawCategoryScores)
NormalizeStep ==
    /\ agPc = "normalize"
    /\ agCats' = normalizeWeights(agRaw)
    /\ agPc' = "overall"
    /\ UNCHANGED <<agRules, agWeights, agTotalFiles, agFindingCount, agRaw, agOverall>>
    /\ UNCHANGED notAgg

\* ScoreCalculator.calculateOverall(categoryScores): returns ...
OverallStep ==
    /\ agPc = "overall"
    /\ ~WeightSumInvalid(agCats)
    /\ agOverall' = calculateOverall(agCats)
    /\ agPc' = "done"
    /\ UNCHANGED <<agRules, agWeights, agTotalFiles, agFindingCount, agRaw, agCats>>
    /\ UNCHANGED notAgg

\* ... or throws 'Category weights must sum to 1.0', which analyze lets escape
OverallThrows ==
    /\ agPc = "overall"
    /\ WeightSumInvalid(agCats)
    /\ agPc' = "failed"
    /\ UNCHANGED <<agRules, agWeights, agTotalFiles, agFindingCount, agRaw, agCats, agOverall>>
    /\ UNCHANGED notAgg

AggNext == RuleStep \/ RuleLoopEnd \/ NormalizeStep \/ OverallStep \/ OverallThrows

\* ------------------------------------------- SpecAst: extract() over one file
AstIdle ==
    /\ astTree = <<>>
    /\ astInserted = 0
    /\ astMetrics = <<>>
    /\ astPc = "idle"

\* The node after node p in a chain: every node the child of the one before
Chain(kinds) == [i \in 1..Len(kinds) |-> Node(kinds[i], "", i - 1)]

\* Parsed files to start from:
\*   function f() {}                      () => x   (as a statement)
\*   function f() { if (c) {} }           class { m() { (function () {}); } }
\*   function f() { switch (x) {} }       function f() { try {} ... }
StartTrees ==
    {Chain(<<"SourceFile", "FunctionDeclaration", "Block">>),
     Chain(<<"SourceFile", "ExpressionStatement", "ArrowFunction">>),
     Chain(<<"SourceFile", "FunctionDeclaration", "Block", "IfStatement", "Block">>),
     Chain(<<"SourceFile", "ClassDeclaration", "MethodDeclaration", "Block",
             "ExpressionStatement", "FunctionExpression", "Block">>),
     Chain(<<"SourceFile", "FunctionDeclaration", "Block", "SwitchStatement", "CaseBlock">>),
     Chain(<<"SourceFile", "FunctionDeclaration", "Block", "TryStatement", "Block">>)}

AstInit ==
    /\ astTree \in StartTrees
    /\ astInserted = 0
    /\ astMetrics = <<>>
    /\ astPc = "parsed"

StatementKinds ==
    {"IfStatement", "ForStatement", "ForInStatement", "ForOfStatement",
     "WhileStatement", "DoStatement", "SwitchStatement", "TryStatement", "Block",
     "ExpressionStatement", "FunctionDeclaration", "ClassDeclaration"}
ExpressionKinds ==
    {"BinaryExpression", "ConditionalExpression", "ArrowFunction", "FunctionExpression"}
StatementParents ==
    {"SourceFile", "Block", "IfStatement", "ForStatement", "ForInStatement",
     "ForOfStatement", "WhileStatement", "DoStatement", "CaseClause"}
ExpressionParents ==
    {"ExpressionStatement", "IfStatement", "ForStatement", "ForInStatement",
     "ForOfStatement", "WhileStatement", "DoStatement", "SwitchStatement",
     "CaseClause", "BinaryExpression", "ConditionalExpression", "ArrowFunction"}
NodeKinds ==
    StatementKinds \cup ExpressionKinds
        \cup {"CaseBlock", "CaseClause", "CatchClause", "MethodDeclaration", "Constructor"}

HasChildOfKind(tree, p, kind) == \E c \in Children(tree, p) : tree[c].kind = kind

\* The grammar of the parser's trees, as far as the node kinds here go
ValidChild(tree, p, kind) ==
    LET pk == tree[p].kind IN
    \/ kind \in StatementKinds /\ pk \in StatementParents
    \/ /\ kind = "Block"
       /\ pk \in FunctionKinds \cup {"TryStatement", "CatchClause"}
       /\ (pk \in FunctionKinds \cup {"CatchClause"} => Children(tree, p) = {})
    \/ kind \in ExpressionKinds /\ pk \in ExpressionParents
    \/ kind = "CaseBlock" /\ pk = "SwitchStatement" /\ ~HasChildOfKind(tree, p, "CaseBlock")
    \/ kind = "CaseClause" /\ pk = "CaseBlock"
    \/ kind = "CatchClause" /\ pk = "TryStatement" /\ ~HasChildOfKind(tree, p, "CatchClause")
    \/ kind \in {"MethodDeclaration", "Constructor"} /\ pk = "ClassDeclaration"

Operators(kind) == IF kind = "BinaryExpression" THEN {"&&", "||", "+"} ELSE {""}

\* The nodes a node appended in source order may hang under: the last node
\* and its ancestors
RECURSIVE AncestorsOrSelf(_, _)
AncestorsOrSelf(tree, n) ==
    IF n = 0 THEN {} ELSE {n} \cup AncestorsOrSelf(tree, tree[n].parent)

\* The source text holds one more construct: the parser's tree has one more node.
InsertNode ==
    /\ astPc = "parsed"
    /\ astInserted < MaxInserted
    /\ \E p \in AncestorsOrSelf(astTree, Len(astTree)), kind \in NodeKinds :
          /\ ValidChild(astTree, p, kind)
          /\ \E op \in Operators(kind) :
                astTree' = Append(astTree, Node(kind, op, p))
    /\ astInserted' = astInserted + 1
    /\ UNCHANGED <<astMetrics, astPc>>
    /\ UNCHANGED notAst

\* MetricExtractor.extract()
Extract ==
    /\ astPc = "parsed"
    /\ astMetrics' = extract(astTree)
    /\ astPc' = "extracted"
    /\ UNCHANGED <<astTree, astInserted>>
    /\ UNCHANGED notAst

AstNext == InsertNode \/ Extract

\* ------------------------------------ SpecDup: blocks collected, then detected
DupIdle ==
    /\ codeBlocks = <<>>
    /\ dupAnalyzed = 0
    /\ dupMetrics = <<>>
    /\ dupPc = "idle"

DupInit ==
    /\ codeBlocks = <<>>
    /\ dupAnalyzed = 0
    /\ dupMetrics = <<>>
    /\ dupPc = "collect"

FilePaths == {"a.ts", "b.ts"}

\* analyzeFile's visit reaches one more function node: its text is tokenized
\* and the block kept if it is long enough
AnalyzeFunction ==
    /\ dupPc = "collect"
    /\ dupAnalyzed < MaxFunctions
    /\ \E filePath \in FilePaths, text \in TextPool :
          LET block == CodeBlock(filePath, TokensOf(text), dupAnalyzed + 1) IN
          codeBlocks' = IF Len(block.tokens) >= MIN_BLOCK_SIZE
                        THEN Append(codeBlocks, block) ELSE codeBlocks
    /\ dupAnalyzed' = dupAnalyzed + 1
    /\ UNCHANGED <<dupMetrics, dupPc>>
    /\ UNCHANGED notDup

\* const duplicates = dupDetector.detectDuplicates()
DetectDuplicates ==
    /\ dupPc = "collect"
    /\ dupMetrics' = detectDuplicates(codeBlocks)
    /\ dupPc' = "detected"
    /\ UNCHANGED <<codeBlocks, dupAnalyzed>>
    /\ UNCHANGED notDup

DupNext == AnalyzeFunction \/ DetectDuplicates

\* ------------------------------------------- SpecTok: tokenize on two texts
TokIdle ==
    /\ tkSegments = <<>>
    /\ tkTokensA = <<>>
    /\ tkTokensB = <<>>
    /\ tkPc = "idle"

TokInit ==
    /\ tkSegments = <<>>
    /\ tkTokensA = <<>>
    /\ tkTokensB = <<>>
    /\ tkPc = "write"

\* The lexical segments a function text is made of
SegmentKinds == {"code", "space", "newline", "lineComment", "blockComment"}

\* A segment as written; a line comment is written with the newline ending it
SegmentText(kind) ==
    CASE kind = "code" -> <<"a">>
      [] kind = "space" -> <<" ">>
      [] kind = "newline" -> <<"\n">>
      [] kind = "lineComment" -> <<"/", "/", "c", "\n">>
      [] kind = "blockComment" -> <<"/", "*", "c", "*", "/">>

\* The same segment with its comment left out
SegmentTextBare(kind) ==
    CASE kind = "lineComment" -> <<"\n">>
      [] kind = "blockComment" -> <<>>
      [] OTHER -> SegmentText(kind)

RECURSIVE Written(_), WrittenBare(_)
Written(segments) ==
    IF segments = <<>> THEN <<>>
    ELSE SegmentText(Head(segments)) \o Written(Tail(segments))
WrittenBare(segments) ==
    IF segments = <<>> THEN <<>>
    ELSE SegmentTextBare(Head(segments)) \o WrittenBare(Tail(segments))

WriteSegment ==
    /\ tkPc = "write"
    /\ Len(tkSegments) < MaxSegments
    /\ \E kind \in SegmentKinds : tkSegments' = Append(tkSegments, kind)
    /\ UNCHANGED <<tkTokensA, tkTokensB, tkPc>>
    /\ UNCHANGED notTok

\* extractCodeBlock on two function nodes: one with the text as written, one
\* with the same text bare of comments
TokenizeBoth ==
    /\ tkPc = "write"
    /\ tkTokensA' = tokenize(Written(tkSegments))
    /\ tkTokensB' = tokenize(WrittenBare(tkSegments))
    /\ tkPc' = "tokenized"
    /\ UNCHANGED tkSegments
    /\ UNCHANGED notTok

TokNext == WriteSegment \/ TokenizeBoth

\* --------------------------- SpecDep: the graph built, then searched for cycles
DepIdle ==
    /\ dependencyGraph = <<>>
    /\ depDeclared = <<>>
    /\ depImports = 0
    /\ depResult = SearchStart
    /\ depPc = "idle"

DepInit ==
    /\ dependencyGraph = <<>>
    /\ depDeclared = <<>>
    /\ depImports = 0
    /\ depResult = SearchStart
    /\ depPc = "collect"

\* the files a scan finds, in the project of packages and in that of siblings
ProjectFiles == {JoinPath(segments) : segments \in PackageFileSegments}
SiblingFiles == {JoinPath(segments) : segments \in SiblingFileSegments}
Projects == {[files |-> ProjectFiles, specifiers |-> ImportSpecifiers],
             [files |-> SiblingFiles, specifiers |-> SiblingSpecifiers]}

SpecifierLists(specifiers, n) == UNION {[1..k -> specifiers] : k \in 0..n}

\* analyzeDependencies(filePath, content), for a file of the project not
\* analysed before
AnalyzeDependencies ==
    /\ depPc = "collect"
    /\ \E project \in Projects :
          /\ GraphKeys(dependencyGraph) \subseteq project.files
          /\ \E filePath \in project.files \ GraphKeys(dependencyGraph) :
             \E specifiers \in SpecifierLists(project.specifiers, MaxImports - depImports) :
                /\ dependencyGraph' = Append(dependencyGraph,
                      [filePath |-> filePath, imports |-> ResolvedImports(filePath, specifiers)])
                /\ depDeclared' = Append(depDeclared, specifiers)
                /\ depImports' = depImports + Len(specifiers)
    /\ UNCHANGED <<depResult, depPc>>
    /\ UNCHANGED notDep

\* const cycles = depAnalyzer.detectCircularDependencies()
DetectCircularDependencies ==
    /\ depPc = "collect"
    /\ depResult' = detectCircularDependencies(dependencyGraph)
    /\ depPc' = "detected"
    /\ UNCHANGED <<dependencyGraph, depDeclared, depImports>>
    /\ UNCHANGED notDep

DepNext == AnalyzeDependencies \/ DetectCircularDependencies

\* ------------------------------------ SpecRule: evaluate over a list of metrics
RuleIdle ==
    /\ rlMetrics = <<>>
    /\ rlRule = "none"
    /\ rlFindings = <<>>
    /\ rlPc = "idle"

RuleInit ==
    /\ rlMetrics = <<>>
    /\ rlRule = "none"
    /\ rlFindings = <<>>
    /\ rlPc = "collect"

\* Metric names and values on both sides of every threshold the rules test
MetricChoices ==
    ({"cyclomatic-complexity"} \X {9, 10, 11, 20, 21})
    \cup ({"nesting-depth"} \X {3, 4, 5, 6, 7})
    \cup ({"file-length"} \X {300, 301, 501})
    \cup ({"function-length"} \X {50, 51, 101})
    \cup ({"parameter-count"} \X {5, 6})
    \cup ({"any-usage"} \X {1, 6})
    \cup ({"code-duplication"} \X {1, 3, 6})
    \cup ({"circular-dependency"} \X {2, 3, 4})
    \cup ({"todo-comments"} \X {11})

\* allMetrics.push(...): one more metric in the list handed to the rules
CollectMetric ==
    /\ rlPc = "collect"
    /\ Len(rlMetrics) < MaxMetrics
    /\ \E c \in MetricChoices :
          rlMetrics' = Append(rlMetrics,
              Metric(c[1], c[2], ExtractorFilePath, Len(rlMetrics) + 1, "fn"))
    /\ UNCHANGED <<rlRule, rlFindings, rlPc>>
    /\ UNCHANGED notRule

\* const findings = rule.evaluate(allMetrics)
EvaluateRule ==
    /\ rlPc = "collect"
    /\ \E rule \in {RuleIds[i] : i \in 1..Len(RuleIds)} :
          /\ rlRule' = rule
          /\ rlFindings' = evaluate(rule, rlMetrics)
    /\ rlPc' = "evaluated"
    /\ UNCHANGED rlMetrics
    /\ UNCHANGED notRule

RuleNext == CollectMetric \/ EvaluateRule

\* ------------------------------------------ SpecRun: one analyze call, end to end
NoReport == [built |-> FALSE]

RunIdle ==
    /\ runConfig = [rules |-> <<>>, weights |-> NoWeights]
    /\ runFiles = <<>>
    /\ runIndex = 0
    /\ runReads = <<>>
    /\ runWarnings = <<>>
    /\ runMetrics = <<>>
    /\ runBlocks = <<>>
    /\ runGraph = <<>>
    /\ runCategories = <<>>
    /\ runEvaluated = <<>>
    /\ runSeen = <<>>
    /\ runReport = NoReport
    /\ runReporterCalls = 0
    /\ runOutcome = "pending"
    /\ runExit = -1
    /\ runPc = "idle"

\* The service as the command wires it (five rules, default weights), with
\* all weights configured 0, and with no rule registered
RunConfigs ==
    {[rules |-> RuleIds, weights |-> NoWeights],
     [rules |-> RuleIds, weights |-> WeightRecord(0, 0, 0, 0, 0)],
     [rules |-> <<>>, weights |-> NoWeights]}

RunInit ==
    /\ runConfig \in RunConfigs
    /\ runFiles = <<>>
    /\ runIndex = 0
    /\ runReads = <<>>
    /\ runWarnings = <<>>
    /\ runMetrics = <<>>
    /\ runBlocks = <<>>
    /\ runGraph = <<>>
    /\ runCategories = <<>>
    /\ runEvaluated = <<>>
    /\ runSeen = <<>>
    /\ runReport = NoReport
    /\ runReporterCalls = 0
    /\ runOutcome = "pending"
    /\ runExit = -1
    /\ runPc = "start"

\* function f() { if (c) {} ... if (c) {} }, eleven times
ElevenIfsTree ==
    Chain(<<"SourceFile", "FunctionDeclaration", "Block">>)
    \o [i \in 1..22 |-> IF i % 2 = 1 THEN Node("IfStatement", "", 3)
                        ELSE Node("Block", "", 3 + i - 1)]

\* function f(a: any, ...) {}, with `any` six times
SixAnysTree ==
    [Chain(<<"SourceFile", "FunctionDeclaration", "Block">>) EXCEPT ![2].anys = 6]

\* What a file can hold: its syntax tree, the texts of its function nodes (of
\* which the detector reads the length and the likeness) and the modules its
\* import declarations name
FileContents ==
    [empty |-> [tree |-> Chain(<<"SourceFile">>), functions |-> <<>>, specifiers |-> <<>>],
     elevenIfs |-> [tree |-> ElevenIfsTree, functions |-> <<TextD>>, specifiers |-> <<>>],
     copy |-> [tree |-> Chain(<<"SourceFile", "FunctionDeclaration", "Block">>),
               functions |-> <<TextA>>, specifiers |-> <<"../a", "../b">>],
     sixAnys |-> [tree |-> SixAnysTree, functions |-> <<TextD>>, specifiers |-> <<>>]]

UnsupportedPath == "/p/notes.md"

\* TypeScriptParser.supports
supports(filePath) == filePath # UnsupportedPath

\* A scanned file: its path, whether fileReader.read and the parser succeed on
\* it, and what it holds
ScannedFiles ==
    {[path |-> path, read |-> "throws", parse |-> "ok", content |-> "empty"] :
        path \in ProjectFiles \cup {UnsupportedPath}}
    \cup {[path |-> UnsupportedPath, read |-> "ok", parse |-> "ok", content |-> "empty"]}
    \cup {[path |-> path, read |-> "ok", parse |-> parse, content |-> content] :
            path \in ProjectFiles, parse \in {"ok", "fails", "throws"},
            content \in {"empty", "elevenIfs", "copy", "sixAnys"}}

ScanPaths(files) == {files[k].path : k \in 1..Len(files)}

\* const filePaths = await this.fileReader.scan(...): any list of files of
\* distinct paths
Scan ==
    /\ runPc = "start"
    /\ \E n \in 0..MaxScan : \E files \in [1..n -> ScannedFiles] :
          /\ Cardinality(ScanPaths(files)) = n
          /\ runFiles' = files
    /\ runPc' = "files"
    /\ UNCHANGED <<runConfig, runIndex, runReads, runWarnings, runMetrics, runBlocks,
                   runGraph, runCategories, runEvaluated, runSeen, runReport, runReporterCalls,
                   runOutcome, runExit>>
    /\ UNCHANGED notRun

\* TypeScriptParser.parse when it returns: the extractor's metrics for the file
parse(filePath, tree) ==
    LET metrics == extract(tree) IN
    [k \in 1..Len(metrics) |-> [metrics[k] EXCEPT !.filePath = filePath]]

\* The blocks the duplication detector keeps of one file
RECURSIVE BlocksOf(_, _, _)
BlocksOf(filePath, functions, k) ==
    IF k > Len(functions) THEN <<>>
    ELSE LET block == CodeBlock(filePath, TokensOf(functions[k]), k) IN
         (IF Len(block.tokens) >= MIN_BLOCK_SIZE THEN <<block>> ELSE <<>>)
            \o BlocksOf(filePath, functions, k + 1)

\* Whether the loop body gets past the read, and past the parser
ReadAndSupported(file) == file.read = "ok" /\ supports(file.path)
Analysed(file) == ReadAndSupported(file) /\ file.parse # "throws"
Warned(file) ==
    file.read = "throws" \/ (supports(file.path) /\ file.parse \in {"fails", "throws"})

\* (a slip: no try / catch around the loop body; the first error rejects)
ProcessFileNoCatch ==
    /\ runPc = "files"
    /\ runIndex < Len(runFiles)
    /\ LET file == runFiles[runIndex + 1]
           content == FileContents[file.content]
           thrown == file.read = "throws" \/ (supports(file.path) /\ file.parse = "throws")
       IN  /\ runReads' = Append(runReads, file.path)
           /\ runWarnings' = IF Warned(file) /\ ~thrown
                             THEN Append(runWarnings, file.path) ELSE runWarnings
           /\ runMetrics' = IF ReadAndSupported(file) /\ file.parse = "ok"
                            THEN runMetrics \o parse(file.path, content.tree) ELSE runMetrics
           /\ runGraph' = IF Analysed(file)
                          THEN Append(runGraph,
                                 [filePath |-> file.path,
                                  imports |-> ResolvedImports(file.path, content.specifiers)])
                          ELSE runGraph
           /\ runBlocks' = IF Analysed(file)
                           THEN runBlocks \o BlocksOf(file.path, content.functions, 1)
                           ELSE runBlocks
           /\ runOutcome' = IF thrown THEN "rejected" ELSE runOutcome
           /\ runPc' = IF thrown THEN "settled" ELSE runPc
    /\ runIndex' = runIndex + 1
    /\ UNCHANGED <<runConfig, runFiles, runCategories, runEvaluated, runSeen, runReport,
                   runReporterCalls, runExit>>
    /\ UNCHANGED notRun

\* One iteration of `for (const filePath of filePaths)`: read; if supported,
\* parse and push the metrics or warn, then feed the two analyzers; any error
\* thrown is caught and warned about
ProcessFile ==
    /\ runPc = "files"
    /\ runIndex < Len(runFiles)
    /\ LET file == runFiles[runIndex + 1]
           content == FileContents[file.content]
       IN  /\ runReads' = Append(runReads, file.path)
           /\ runWarnings' = IF Warned(file) THEN Append(runWarnings, file.path)
                             ELSE runWarnings
           /\ runMetrics' = IF ReadAndSupported(file) /\ file.parse = "ok"
                            THEN runMetrics \o parse(file.path, content.tree) ELSE runMetrics
           /\ runGraph' = IF Analysed(file)
                          THEN Append(runGraph,
                                 [filePath |-> file.path,
                                  imports |-> ResolvedImports(file.path, content.specifiers)])
                          ELSE runGraph
           /\ runBlocks' = IF Analysed(file)
                           THEN runBlocks \o BlocksOf(file.path, content.functions, 1)
                           ELSE runBlocks
    /\ runIndex' = runIndex + 1
    /\ UNCHANGED <<runConfig, runFiles, runCategories, runEvaluated, runSeen, runReport,
                   runReporterCalls, runOutcome, runExit, runPc>>
    /\ UNCHANGED notRun

\* `for (const rule of this.rules)`: the findings so far and the raw category
\* scores so far
RECURSIVE RuleLoop(_, _, _, _, _)
RuleLoop(rules, allMetrics, totalFiles, weights, acc) ==
    IF rules = <<>> THEN acc
    ELSE LET rule == Head(rules)
             findings == evaluate(rule, allMetrics)
             score == calculateScore(rule, findings, Context(totalFiles))
         IN  RuleLoop(Tail(rules), allMetrics, totalFiles, weights,
                [evaluated |-> Append(acc.evaluated, allMetrics),
                 allFindings |-> acc.allFindings \o findings,
                 rawCategoryScores |-> Append(acc.rawCategoryScores,
                    CategoryScore(RuleName(rule), score, getCategoryWeight(rule, weights), 100))])

\* (a slip: the file loop is not waited for)
FilesDoneAnytime == TRUE

\* `for (const filePath of filePaths)` has ended: every iteration, with its
\* awaits, is over
FilesDone == runIndex = Len(runFiles)

\* From the end of the file loop to the call of reporter.generate: the two
\* detections, the rule loop, the normalization and the overall score, which
\* throws on weights that do not sum to 1
FinishRun ==
    /\ runPc = "files"
    /\ FilesDone
    /\ LET circularDeps == detectCircularDependencies(runGraph).metrics
           duplicates == detectDuplicates(runBlocks)
           allMetrics == (runMetrics \o circularDeps) \o duplicates
           loop == RuleLoop(runConfig.rules, allMetrics, Len(runFiles), runConfig.weights,
                            [evaluated |-> <<>>, allFindings |-> <<>>,
                             rawCategoryScores |-> <<>>])
           categoryScores == normalizeWeights(loop.rawCategoryScores)
       IN  /\ runMetrics' = allMetrics
           /\ runEvaluated' = loop.evaluated
           /\ runCategories' = categoryScores
           /\ IF WeightSumInvalid(categoryScores)
              THEN /\ runOutcome' = "rejected"
                   /\ runPc' = "settled"
                   /\ UNCHANGED runReport
              ELSE /\ runReport' =
                        [built |-> TRUE,
                         overall |-> calculateOverall(categoryScores),
                         categories |-> categoryScores,
                         findings |-> loop.allFindings,
                         filesAnalyzed |-> Len(runFiles),
                         totalMetrics |-> Len(allMetrics),
                         totalFindings |-> Len(loop.allFindings)]
                   /\ runPc' = "reporting"
                   /\ UNCHANGED runOutcome
    /\ UNCHANGED <<runConfig, runFiles, runIndex, runReads, runWarnings, runBlocks, runGraph,
                   runSeen, runReporterCalls, runExit>>
    /\ UNCHANGED notRun

\* report.findings.sort(...) by severityOrder { high: 0, medium: 1, low: 2 }:
\* Array.prototype.sort is stable and sorts the array in place
SortBySeverity(findings) ==
    (SelectSeq(findings, LAMBDA f : f.severity = "high")
        \o SelectSeq(findings, LAMBDA f : f.severity = "medium"))
        \o SelectSeq(findings, LAMBDA f : f.severity = "low")

\* TerminalReporter.generate: prints, and sorts report.findings for its top ten
TerminalReporter_generate(report) == [report EXCEPT !.findings = SortBySeverity(@)]

\* JsonExporter.generate: maps the report into the object it writes
JsonExporter_generate(report) == report

\* await this.reporter.generate(report); return report.  The composite calls
\* generate of the terminal reporter, which runs to its end, then that of the
\* JSON exporter, which reads the report before its first await.
Report ==
    /\ runPc = "reporting"
    /\ LET afterTerminal == TerminalReporter_generate(runReport)
           afterJson == JsonExporter_generate(afterTerminal)
       IN  /\ runSeen' = <<runReport.findings, afterTerminal.findings>>
           /\ runReport' = afterJson
    /\ runReporterCalls' = runReporterCalls + 1
    /\ runOutcome' = "resolved"
    /\ runPc' = "settled"
    /\ UNCHANGED <<runConfig, runFiles, runIndex, runReads, runWarnings, runMetrics, runBlocks,
                   runGraph, runCategories, runEvaluated, runExit>>
    /\ UNCHANGED notRun

\* main: process.exit(0) after the command, process.exit(1) in the catch
Exit ==
    /\ runPc = "settled"
    /\ runExit' = IF runOutcome = "resolved" THEN 0 ELSE 1
    /\ runPc' = "exited"
    /\ UNCHANGED <<runConfig, runFiles, runIndex, runReads, runWarnings, runMetrics, runBlocks,
                   runGraph, runCategories, runEvaluated, runSeen, runReport, runReporterCalls,
                   runOutcome>>
    /\ UNCHANGED notRun

RunNext == Scan \/ ProcessFile \/ FinishRun \/ Report \/ Exit

\* ------------------------------------ SpecBuilder: one MetricBuilder, called on
\* A field of the Partial<Metric>: not set, or set to a value
Unset == [set |-> FALSE, v |-> ""]
UnsetNumber == [set |-> FALSE, v |-> 0]
Set(v) == [set |-> TRUE, v |-> v]

\* private metric: Partial<Metric> = {}
EmptyMetric ==
    [name |-> Unset, value |-> UnsetNumber, filePath |-> Unset,
     location |-> UnsetNumber, context |-> Unset]

BuilderIdle ==
    /\ mbHeap = <<>>
    /\ mbMetric = 0
    /\ mbReturned = <<>>
    /\ mbCalls = 0
    /\ mbPc = "idle"

\* new MetricBuilder(): the object literal is allocated and held by the builder
BuilderInit ==
    /\ mbHeap = <<EmptyMetric>>
    /\ mbMetric = 1
    /\ mbReturned = <<>>
    /\ mbCalls = 0
    /\ mbPc = "built"

MetricNames == {"", "any-usage", "file-length"}
MetricValues == {0, 1}
MetricPaths == {"a.ts", "b.ts"}
MetricLines == {1, 2}
MetricContexts == {"f", "g"}

\* this.metric.<field> = <value>, on the object the reference names
AssignField(heap, ref, field, value) == [heap EXCEPT ![ref][field] = Set(value)]

\* the five setters; each returns this
withName ==
    /\ mbPc = "built"
    /\ mbCalls < MaxCalls
    /\ \E name \in MetricNames : mbHeap' = AssignField(mbHeap, mbMetric, "name", name)
    /\ mbCalls' = mbCalls + 1
    /\ UNCHANGED <<mbMetric, mbReturned, mbPc>>
    /\ UNCHANGED notBuilder

withValue ==
    /\ mbPc = "built"
    /\ mbCalls < MaxCalls
    /\ \E value \in MetricValues : mbHeap' = AssignField(mbHeap, mbMetric, "value", value)
    /\ mbCalls' = mbCalls + 1
    /\ UNCHANGED <<mbMetric, mbReturned, mbPc>>
    /\ UNCHANGED notBuilder

withFilePath ==
    /\ mbPc = "built"
    /\ mbCalls < MaxCalls
    /\ \E filePath \in MetricPaths : mbHeap' = AssignField(mbHeap, mbMetric, "filePath", filePath)
    /\ mbCalls' = mbCalls + 1
    /\ UNCHANGED <<mbMetric, mbReturned, mbPc>>
    /\ UNCHANGED notBuilder

withLocation ==
    /\ mbPc = "built"
    /\ mbCalls < MaxCalls
    /\ \E startLine \in MetricLines : mbHeap' = AssignField(mbHeap, mbMetric, "location", startLine)
    /\ mbCalls' = mbCalls + 1
    /\ UNCHANGED <<mbMetric, mbReturned, mbPc>>
    /\ UNCHANGED notBuilder

withContext ==
    /\ mbPc = "built"
    /\ mbCalls < MaxCalls
    /\ \E context \in MetricContexts : mbHeap' = AssignField(mbHeap, mbMetric, "context", context)
    /\ mbCalls' = mbCalls + 1
    /\ UNCHANGED <<mbMetric, mbReturned, mbPc>>
    /\ UNCHANGED notBuilder

\* !this.metric.name || this.metric.value === undefined || !this.metric.filePath
Incomplete(metric) ==
    \/ ~metric.name.set \/ metric.name.v = ""
    \/ ~metric.value.set
    \/ ~metric.filePath.set \/ metric.filePath.v = ""

\* build(): throws on an incomplete metric, else returns this.metric itself
build ==
    /\ mbPc = "built"
    /\ mbCalls < MaxCalls
    /\ mbReturned' = IF Incomplete(mbHeap[mbMetric]) THEN mbReturned
                     ELSE Append(mbReturned, [ref |-> mbMetric, fields |-> mbHeap[mbMetric]])
    /\ mbCalls' = mbCalls + 1
    /\ UNCHANGED <<mbHeap, mbMetric, mbPc>>
    /\ UNCHANGED notBuilder

BuilderNext == withName \/ withValue \/ withFilePath \/ withLocation \/ withContext \/ build

\* --------------------------- SpecTwo: two analyze calls on one AnalysisService
\* The locals of one call: where it is, its filePaths and loop position, its
\* allMetrics, the analyzers it uses and its report
TwoRunIdle ==
    [pc |-> "idle", files |-> <<>>, index |-> 0, metrics |-> <<>>, analyzers |-> 0,
     report |-> NoReport]
TwoRunStart == [TwoRunIdle EXCEPT !.pc = "start"]

\* new DependencyAnalyzer(), new DuplicationDetector()
NewAnalyzers == [graph |-> <<>>, blocks |-> <<>>]

TwoIdle ==
    /\ twRuns = <<TwoRunIdle, TwoRunIdle>>
    /\ twAnalyzers = <<NewAnalyzers, NewAnalyzers>>
    /\ twOverlap = FALSE

TwoInit ==
    /\ twRuns = <<TwoRunStart, TwoRunStart>>
    /\ twAnalyzers = <<NewAnalyzers, NewAnalyzers>>
    /\ twOverlap = FALSE

\* The files the two scans can return: read and parsed without error
TwoPaths == {"/p/a/index.ts", "/p/b/index.ts"}
TwoFiles ==
    {[path |-> path, read |-> "ok", parse |-> "ok", content |-> content] :
        path \in TwoPaths, content \in {"elevenIfs", "copy"}}

\* (a slip: one pair of analyzers held by the service and used by every call)
AnalyzersOfService(run) == 1

\* `const depAnalyzer = new DependencyAnalyzer()`, `const dupDetector = new
\* DuplicationDetector()` inside analyze: the pair a call creates is its own
AnalyzersOf(run) == run

\* Whether a step of a call falls between the scan and the end of the other
MidRun(run) == twRuns[run].pc \in {"files", "reporting"}

\* One loop iteration on a file that is read and parsed: its metrics pushed ...
AfterPush(metrics, file) ==
    metrics \o parse(file.path, FileContents[file.content].tree)

\* ... and the two analyzers fed
AfterFeed(analyzers, file) ==
    LET content == FileContents[file.content] IN
    [graph |-> Append(analyzers.graph,
                  [filePath |-> file.path,
                   imports |-> ResolvedImports(file.path, content.specifiers)]),
     blocks |-> analyzers.blocks \o BlocksOf(file.path, content.functions, 1)]

\* allMetrics once the advanced metrics are pushed
AllMetrics(metrics, analyzers) ==
    (metrics \o detectCircularDependencies(analyzers.graph).metrics)
        \o detectDuplicates(analyzers.blocks)

\* The report of a call from its allMetrics: the rule loop of the five rules
\* with the default weights, the normalization and the overall score
ReportOf(allMetrics, totalFiles) ==
    LET loop == RuleLoop(RuleIds, allMetrics, totalFiles, NoWeights,
                         [evaluated |-> <<>>, allFindings |-> <<>>,
                          rawCategoryScores |-> <<>>])
        categoryScores == normalizeWeights(loop.rawCategoryScores)
    IN  [built |-> TRUE,
         overall |-> calculateOverall(categoryScores),
         categories |-> categoryScores,
         findings |-> loop.allFindings,
         filesAnalyzed |-> totalFiles,
         totalMetrics |-> Len(allMetrics),
         totalFindings |-> Len(loop.allFindings)]

\* A call gets its file list from the scan and creates its analyzers
TwoScan ==
    \E run \in 1..2 :
        /\ twRuns[run].pc = "start"
        /\ \E n \in 0..MaxScan : \E files \in [1..n -> TwoFiles] :
              /\ Cardinality(ScanPaths(files)) = n
              /\ twRuns' = [twRuns EXCEPT ![run].pc = "files", ![run].files = files,
                                          ![run].analyzers = AnalyzersOf(run)]
        /\ twAnalyzers' = [twAnalyzers EXCEPT ![AnalyzersOf(run)] = NewAnalyzers]
        /\ twOverlap' = (twOverlap \/ MidRun(3 - run))
        /\ UNCHANGED notTwo

\* One iteration of the file loop of a call
TwoProcessFile ==
    \E run \in 1..2 :
        /\ twRuns[run].pc = "files"
        /\ twRuns[run].index < Len(twRuns[run].files)
        /\ LET file == twRuns[run].files[twRuns[run].index + 1] IN
              /\ twRuns' = [twRuns EXCEPT ![run].index = @ + 1,
                                          ![run].metrics = AfterPush(@, file)]
              /\ twAnalyzers' = [twAnalyzers EXCEPT ![twRuns[run].analyzers] = AfterFeed(@, file)]
        /\ twOverlap' = (twOverlap \/ MidRun(3 - run))
        /\ UNCHANGED notTwo

\* From the end of the file loop of a call to its reporter.generate
TwoFinishRun ==
    \E run \in 1..2 :
        /\ twRuns[run].pc = "files"
        /\ twRuns[run].index = Len(twRuns[run].files)
        /\ LET allMetrics == AllMetrics(twRuns[run].metrics, twAnalyzers[twRuns[run].analyzers]) IN
              twRuns' = [twRuns EXCEPT ![run].pc = "reporting",
                                       ![run].metrics = allMetrics,
                                       ![run].report = ReportOf(allMetrics, Len(twRuns[run].files))]
        /\ twOverlap' = (twOverlap \/ MidRun(3 - run))
        /\ UNCHANGED twAnalyzers
        /\ UNCHANGED notTwo

\* await this.reporter.generate(report); return report
TwoReport ==
    \E run \in 1..2 :
        /\ twRuns[run].pc = "reporting"
        /\ twRuns' = [twRuns EXCEPT ![run].pc = "settled",
                         ![run].report = JsonExporter_generate(TerminalReporter_generate(@))]
        /\ twOverlap' = (twOverlap \/ MidRun(3 - run))
        /\ UNCHANGED twAnalyzers
        /\ UNCHANGED notTwo

TwoNext == TwoScan \/ TwoProcessFile \/ TwoFinishRun \/ TwoReport

\* ------------------------------------------------------------ specifications
\* Each specification runs one component; the others rest in their idle state.
InitScore == ScoreInit /\ AggIdle /\ AstIdle /\ DupIdle /\ TokIdle /\ DepIdle /\ RuleIdle /\ RunIdle /\ BuilderIdle /\ TwoIdle
SpecScore == InitScore /\ [][ScoreNext]_vars

InitAgg == AggInit /\ ScoreIdle /\ AstIdle /\ DupIdle /\ TokIdle /\ DepIdle /\ RuleIdle /\ RunIdle /\ BuilderIdle /\ TwoIdle
SpecAgg == InitAgg /\ [][AggNext]_vars

InitAst == AstInit /\ ScoreIdle /\ AggIdle /\ DupIdle /\ TokIdle /\ DepIdle /\ RuleIdle /\ RunIdle /\ BuilderIdle /\ TwoIdle
SpecAst == InitAst /\ [][AstNext]_vars

InitDup == DupInit /\ ScoreIdle /\ AggIdle /\ AstIdle /\ TokIdle /\ DepIdle /\ RuleIdle /\ RunIdle /\ BuilderIdle /\ TwoIdle
SpecDup == InitDup /\ [][DupNext]_vars

InitTok == TokInit /\ ScoreIdle /\ AggIdle /\ AstIdle /\ DupIdle /\ DepIdle /\ RuleIdle /\ RunIdle /\ BuilderIdle /\ TwoIdle
SpecTok == InitTok /\ [][TokNext]_vars

InitDep == DepInit /\ ScoreIdle /\ AggIdle /\ AstIdle /\ DupIdle /\ TokIdle /\ RuleIdle /\ RunIdle /\ BuilderIdle /\ TwoIdle
SpecDep == InitDep /\ [][DepNext]_vars

InitRule == RuleInit /\ ScoreIdle /\ AggIdle /\ AstIdle /\ DupIdle /\ TokIdle /\ DepIdle /\ RunIdle /\ BuilderIdle /\ TwoIdle
SpecRule == InitRule /\ [][RuleNext]_vars

InitBuilder == BuilderInit /\ ScoreIdle /\ AggIdle /\ AstIdle /\ DupIdle /\ TokIdle /\ DepIdle /\ RuleIdle /\ RunIdle /\ TwoIdle
SpecBuilder == InitBuilder /\ [][BuilderNext]_vars

InitTwo == TwoInit /\ ScoreIdle /\ AggIdle /\ AstIdle /\ DupIdle /\ TokIdle /\ DepIdle /\ RuleIdle /\ RunIdle /\ BuilderIdle
SpecTwo == InitTwo /\ [][TwoNext]_vars

InitRun == RunInit /\ ScoreIdle /\ AggIdle /\ AstIdle /\ DupIdle /\ TokIdle /\ DepIdle /\ RuleIdle /\ BuilderIdle /\ TwoIdle
SpecRun == InitRun /\ [][RunNext]_vars

\* ------------------------------------------------------------------ claims

\* C1: every rule's calculateScore returns a value in [0, 100], whatever the
\* findings and whether the context is absent, has totalFiles = 0 or > 0.
C1_ScoreInRange ==
    scPc = "scored" => (scScore >= 0 /\ scScore <= 10000)

\* A state where a clamped penalty was scored: the raw penalty exceeds 100.
C1_Witness ==
    /\ scPc = "scored"
    /\ scRule = "size"
    /\ SeverityPoints(scFindings, 8, 4, 2) > 100
    /\ scScore = 0

\* C5: density invariant.  For the findings just scored with totalFiles = n >= 1,
\* the same rule with totalFiles = 2n returns a score that is not lower.
C5_DoublingFilesNeverLowers ==
    (scPc = "scored" /\ scContext.present /\ scContext.totalFiles >= 1)
        => calculateScore(scRule, scFindings, Context(2 * scContext.totalFiles)) >= scScore

\* Findings whose score really moves when the file count doubles.
C5_Witness ==
    /\ scPc = "scored"
    /\ scContext.present /\ scContext.totalFiles >= 1
    /\ scRule \in {"complexity", "duplication", "circular-dependency", "type-safety"}
    /\ Len(scFindings) > 0
    /\ calculateScore(scRule, scFindings, Context(2 * scContext.totalFiles)) > scScore

\* C2: for a non-empty list of category scores (non-negative weights),
\* normalizeWeights returns weights that sum to 1; if every input weight is 0
\* each is 1/n, otherwise each is its input weight over the input sum; names
\* and scores are unchanged.
C2_NormalizedWeights ==
    (agPc \in {"overall", "done", "failed"} /\ Len(agRaw) > 0) =>
        LET n == Len(agRaw)
            total == WeightNumSum(agRaw)
        IN  /\ Len(agCats) = n
            /\ \A i \in 1..n : agCats[i].weight.den = agCats[1].weight.den
            /\ agCats[1].weight.den > 0
            /\ SumSeq([i \in 1..n |-> agCats[i].weight.num]) = agCats[1].weight.den
            /\ \A i \in 1..n :
                  /\ agCats[i].name = agRaw[i].name
                  /\ agCats[i].score = agRaw[i].score
                  /\ IF \A j \in 1..n : agRaw[j].weight.num = 0
                     THEN agCats[i].weight.num * n = agCats[i].weight.den
                     ELSE agCats[i].weight.num * total
                              = agRaw[i].weight.num * agCats[i].weight.den

\* Several categories whose weights did not sum to 1 have been rescaled.
C2_Witness ==
    /\ agPc = "overall"
    /\ Len(agRaw) >= 2
    /\ WeightNumSum(agRaw) \notin {0, 100}
    /\ \E i \in 1..Len(agRaw) : agRaw[i].weight.num = 0

\* C3: analyze never fails with 'Category weights must sum to 1.0', whichever
\* rules are configured (some or all of them absent) and whatever the
\* non-negative weights.
C3_WeightErrorUnreachable ==
    agPc # "failed"

CategoryScoreOf(name) ==
    agCats[CHOOSE i \in 1..Len(agCats) : agCats[i].name = name].score

FunctionNodes == {n \in 1..Len(astTree) : astTree[n].kind \in FunctionKinds}
\* d lies in the subtree of f, below f
IsUnder(d, f) == d # f /\ f \in AncestorsOrSelf(astTree, d)
\* the function-like node that most closely encloses d
EnclosingFunction(d) ==
    LET fs == {f \in FunctionNodes : IsUnder(d, f)} IN
    IF fs = {} THEN 0 ELSE CHOOSE f \in fs : \A g \in fs : g <= f
\* a decision construct, as the claims list them
IsDecision(node) ==
    \/ node.kind \in {"IfStatement", "ForStatement", "ForInStatement", "ForOfStatement",
                      "WhileStatement", "DoStatement", "CaseClause",
                      "ConditionalExpression", "CatchClause"}
    \/ node.kind = "BinaryExpression" /\ node.op \in {"&&", "||"}
MetricsOf(name, n) ==
    {i \in 1..Len(astMetrics) : astMetrics[i].name = name /\ astMetrics[i].node = n}

\* C6: the cyclomatic complexity of a function-like node is 1 plus the number
\* of decision constructs in it: 1 with none, one more for each if / for /
\* for-in / for-of / while / do / case / ternary / catch, one more for each
\* && or ||.
C6_ComplexityCountsDecisions ==
    astPc = "extracted" =>
        \A f \in FunctionNodes :
            /\ Cardinality(MetricsOf("cyclomatic-complexity", f)) = 1
            /\ \A i \in MetricsOf("cyclomatic-complexity", f) :
                  astMetrics[i].value =
                    1 + Cardinality({d \in 1..Len(astTree) :
                                        IsUnder(d, f) /\ IsDecision(astTree[d])})

\* An `if` whose condition holds an && : complexity 3.
C6_Witness ==
    /\ astPc = "extracted"
    /\ \E f \in FunctionNodes, d \in 1..Len(astTree) :
          /\ IsUnder(d, f)
          /\ astTree[d].kind = "BinaryExpression" /\ astTree[d].op = "&&"
          /\ astTree[astTree[d].parent].kind = "IfStatement"
          /\ \E i \in MetricsOf("cyclomatic-complexity", f) : astMetrics[i].value = 3

\* C7: the decision constructs of a nested function are not counted into the
\* enclosing function: a function's complexity is 1 plus the decision
\* constructs that lie outside every function nested in it.
C7_NestedFunctionsNotCounted ==
    astPc = "extracted" =>
        \A f \in FunctionNodes :
            \A i \in MetricsOf("cyclomatic-complexity", f) :
                astMetrics[i].value =
                    1 + Cardinality({d \in 1..Len(astTree) :
                                        /\ IsDecision(astTree[d])
                                        /\ EnclosingFunction(d) = f})

\* C8: nesting depth starts at 0 for the function body: a function whose block
\* body holds no nesting construct has depth 0, so no nesting-depth metric.
C8_BodyDepthIsZero ==
    astPc = "extracted" =>
        \A f \in FunctionNodes :
            (\A d \in 1..Len(astTree) :
                (IsUnder(d, f) /\ astTree[d].kind \in NESTING_KINDS)
                    => (astTree[d].kind = "Block" /\ astTree[d].parent = f))
            => MetricsOf("nesting-depth", f) = {}


\* claim helpers: the retained blocks with the tokens of block i, and whether
\* two blocks resemble each other
IdenticalTo(i) == {j \in 1..Len(codeBlocks) : codeBlocks[j].tokens = codeBlocks[i].tokens}
Resemble(i, j) ==
    AtLeastThreshold(SimilarityOf(codeBlocks[i].tokens, codeBlocks[j].tokens))
ResemblesNoOther(group) ==
    \A i \in group, j \in (1..Len(codeBlocks)) \ group : ~Resemble(i, j)
MetricsAt(group) ==
    {m \in 1..Len(dupMetrics) :
        \E j \in group : /\ dupMetrics[m].node = codeBlocks[j].startLine
                         /\ dupMetrics[m].filePath = codeBlocks[j].filePath}

\* C9: when k >= 2 retained blocks have identical tokens and resemble no other
\* retained block, detection yields exactly one code-duplication Metric for
\* them, placed at the first of them encountered, with value k - 1.
C9_IdenticalGroupOneMetric ==
    dupPc = "detected" =>
        \A i \in 1..Len(codeBlocks) :
            LET group == IdenticalTo(i)
                first == FirstOf(group)
            IN  (Cardinality(group) >= 2 /\ ResemblesNoOther(group)) =>
                    /\ Cardinality(MetricsAt(group)) = 1
                    /\ \A m \in MetricsAt(group) :
                          /\ dupMetrics[m].name = "code-duplication"
                          /\ dupMetrics[m].node = codeBlocks[first].startLine
                          /\ dupMetrics[m].filePath = codeBlocks[first].filePath
                          /\ dupMetrics[m].value = Cardinality(group) - 1

\* Detection ran over three retained blocks: the first and the third identical
\* and in different files, the second unlike them; one Metric with value 1 at
\* the first
C9_Witness ==
    /\ dupPc = "detected"
    /\ Len(codeBlocks) = 3
    /\ IdenticalTo(1) = {1, 3}
    /\ ResemblesNoOther({1, 3})
    /\ codeBlocks[1].filePath # codeBlocks[3].filePath
    /\ Len(dupMetrics) = 1
    /\ dupMetrics[1].value = 1
    /\ dupMetrics[1].node = codeBlocks[1].startLine

\* C10: tokenization does not depend on the comments of a text: a text and the
\* same text written without its comments give the same tokens (so no
\* non-comment text is removed).
C10_TokensIgnoreComments ==
    tkPc = "tokenized" => tkTokensA = tkTokensB

\* claim helpers: the files a node imports, the files reached from a file in at
\* most n import steps, and the edges and files of an import chain
ImportsOf(k) == {dependencyGraph[k].imports[m] : m \in 1..Len(dependencyGraph[k].imports)}
RECURSIVE ReachedIn(_, _)
ReachedIn(files, n) ==
    IF n = 0 THEN files
    ELSE ReachedIn(files \cup UNION {ImportsOf(k) :
                        k \in {m \in 1..Len(dependencyGraph) : dependencyGraph[m].filePath \in files}},
                   n - 1)
IsOneSimpleCycle ==
    /\ Len(dependencyGraph) >= 2
    /\ \A k \in 1..Len(dependencyGraph) :
          /\ Len(dependencyGraph[k].imports) = 1
          /\ ImportsOf(k) \subseteq GraphKeys(dependencyGraph)
          /\ dependencyGraph[k].imports[1] # dependencyGraph[k].filePath
          /\ ReachedIn({dependencyGraph[k].filePath}, Len(dependencyGraph))
                = GraphKeys(dependencyGraph)
    /\ \A k, m \in 1..Len(dependencyGraph) :
          k # m => dependencyGraph[k].imports # dependencyGraph[m].imports
ChainEdges(chain) ==
    {<<chain[k], chain[(k % Len(chain)) + 1]>> : k \in 1..Len(chain)}
ChainFiles(chain) == {chain[k] : k \in 1..Len(chain)}

\* C11: when the graph is one simple import cycle over n >= 2 analysed files,
\* the search returns exactly one circular-dependency Metric with value n, in
\* whatever order the files were analysed.
C11_SimpleCycleOneMetric ==
    (depPc = "detected" /\ IsOneSimpleCycle) =>
        /\ Len(depResult.metrics) = 1
        /\ depResult.metrics[1].name = "circular-dependency"
        /\ depResult.metrics[1].value = Len(dependencyGraph)

\* A cycle over three files searched from the second of them
C11_Witness ==
    /\ depPc = "detected"
    /\ IsOneSimpleCycle
    /\ Len(dependencyGraph) = 3
    /\ dependencyGraph[1].filePath = "/p/b/index.ts"
    /\ Len(depResult.metrics) = 1
    /\ depResult.metrics[1].value = 3

\* C12: no two Metrics are emitted for the same cycle (the same import edges),
\* whatever the graph.
C12_NoCycleReportedTwice ==
    depPc = "detected" =>
        /\ Len(depResult.emitted) = Len(depResult.metrics)
        /\ \A i, j \in 1..Len(depResult.emitted) :
              i # j => ChainEdges(depResult.emitted[i]) # ChainEdges(depResult.emitted[j])

\* A file imports the same module twice and closes the same cycle twice; one
\* Metric
C12_Witness ==
    /\ depPc = "detected"
    /\ Len(depResult.metrics) = 1
    /\ Len(depResult.closed) = 2
    /\ ChainEdges(depResult.closed[1]) = ChainEdges(depResult.closed[2])
    /\ Len(dependencyGraph) >= 2

\* C13: every cycle the search closes has a Metric of its own: cycles over
\* different sets of files are never merged by the key.
C13_DistinctCyclesDistinctMetrics ==
    depPc = "detected" =>
        \A i \in 1..Len(depResult.closed) :
            \E m \in 1..Len(depResult.emitted) :
                ChainFiles(depResult.emitted[m]) = ChainFiles(depResult.closed[i])

\* claim helper: the number of findings just scored with a severity
CountSeverity(sev) == Cardinality({i \in 1..Len(scFindings) : scFindings[i].severity = sev})
RawComplexityPenalty ==
    10 * CountSeverity("high") + 5 * CountSeverity("medium") + 2 * CountSeverity("low")

ComplexityReportable(metric) ==
    \/ metric.name = "cyclomatic-complexity" /\ metric.value > 10
    \/ metric.name = "nesting-depth" /\ metric.value > 4
ComplexitySeverity(metric) ==
    IF metric.name = "cyclomatic-complexity"
    THEN (IF metric.value > 20 THEN "high" ELSE "medium")
    ELSE (IF metric.value > 6 THEN "high" ELSE "medium")

\* C19: ComplexityRule.evaluate returns exactly one Finding for each
\* cyclomatic-complexity metric above 10 (high above 20, else medium) and for
\* each nesting-depth metric above 4 (high above 6, else medium), in the order of
\* the metrics, and none for any other metric.
C19_ComplexityFindings ==
    (rlPc = "evaluated" /\ rlRule = "complexity") =>
        LET reported == SelectSeq(rlMetrics, ComplexityReportable) IN
        /\ Len(rlFindings) = Len(reported)
        /\ \A k \in 1..Len(reported) :
              /\ rlFindings[k].location = reported[k].node
              /\ rlFindings[k].severity = ComplexitySeverity(reported[k])

\* A complexity of 21 reported high next to a nesting depth of exactly 4 that is
\* not reported
C19_Witness ==
    /\ rlPc = "evaluated" /\ rlRule = "complexity"
    /\ Len(rlMetrics) = 2
    /\ rlMetrics[1].name = "nesting-depth" /\ rlMetrics[1].value = 4
    /\ rlMetrics[2].name = "cyclomatic-complexity" /\ rlMetrics[2].value = 21
    /\ Len(rlFindings) = 1
    /\ rlFindings[1].severity = "high"

\* claim helpers for the runs: the collection is complete, the run is over,
\* the service is wired as the command wires it
RunCollected == runPc \in {"reporting", "settled", "exited"}
RunOver == runPc \in {"settled", "exited"}
WiredByCommand == runConfig = [rules |-> RuleIds, weights |-> NoWeights]
CleanFile(file) == file.read = "ok" /\ supports(file.path) /\ file.parse = "ok"

\* C14: one supported file holding one function with 11 sequential if
\* statements and nothing else, five rules, default weights: the run reports, the
\* category score of the complexity rule is below 100 and the overall score is
\* strictly between 0 and 100.
C14_ElevenIfsEndToEnd ==
    (RunOver /\ WiredByCommand /\ Len(runFiles) = 1
        /\ CleanFile(runFiles[1]) /\ runFiles[1].content = "elevenIfs") =>
        /\ runOutcome = "resolved"
        /\ runReport.built
        /\ runReport.categories[1].name = "Complexity Rule"
        /\ runReport.categories[1].score < 10000
        /\ runReport.overall > 0
        /\ runReport.overall < 10000

\* That run: complexity 12, one medium finding, category score 50, overall 85
C14_Witness ==
    /\ runPc = "exited" /\ runExit = 0
    /\ WiredByCommand /\ Len(runFiles) = 1
    /\ CleanFile(runFiles[1]) /\ runFiles[1].content = "elevenIfs"
    /\ \E k \in 1..Len(runMetrics) :
          runMetrics[k].name = "cyclomatic-complexity" /\ runMetrics[k].value = 12
    /\ runReport.totalFindings = 1
    /\ runReport.categories[1].score = 5000
    /\ runReport.overall = 8500

\* C15: a file the parser returns a failure for contributes no Metric to the
\* run's collection: no Metric of the collection is attributed to it.
C15_FailedFileNoMetrics ==
    RunCollected =>
        \A k \in 1..Len(runFiles) :
            (runFiles[k].read = "ok" /\ supports(runFiles[k].path)
                /\ runFiles[k].parse = "fails") =>
                \A m \in 1..Len(runMetrics) : runMetrics[m].filePath # runFiles[k].path

\* claim helper: the extractor metrics of the collection that belong to a file
ExtractorMetricsOf(filePath) ==
    SelectSeq(runMetrics,
        LAMBDA metric : metric.filePath = filePath
                        /\ metric.name \notin {"code-duplication", "circular-dependency"})

\* C16: whatever files fail to be read or processed, every file is handed to
\* the reader once, in scan order; the metrics of every file that did not fail
\* are collected; the rules are evaluated and reporter.generate is called exactly
\* once with a complete Score (for a service with at least one rule).
C16_SkipAndContinue ==
    /\ runReporterCalls <= 1
    /\ (RunCollected /\ runConfig.rules # <<>>) =>
          /\ runReads = [k \in 1..Len(runFiles) |-> runFiles[k].path]
          /\ \A k \in 1..Len(runFiles) :
                CleanFile(runFiles[k]) =>
                    ExtractorMetricsOf(runFiles[k].path)
                        = parse(runFiles[k].path, FileContents[runFiles[k].content].tree)
    /\ (RunOver /\ runConfig.rules # <<>>) =>
          /\ runOutcome = "resolved"
          /\ runReporterCalls = 1
          /\ runReport.built
          /\ Len(runReport.categories) = Len(runConfig.rules)
          /\ runReport.filesAnalyzed = Len(runFiles)

\* The first file cannot be read, the second is analysed, the run reports
C16_Witness ==
    /\ runPc = "exited" /\ runExit = 0
    /\ Len(runFiles) = 2
    /\ runFiles[1].read = "throws"
    /\ CleanFile(runFiles[2]) /\ runFiles[2].content = "elevenIfs"
    /\ runWarnings = <<runFiles[1].path>>
    /\ runReporterCalls = 1
    /\ runReport.totalFindings = 1

\* C17: when the scan returns no files the run resolves: every category score
\* is 100, the overall score is 100, the normalized weights sum to 1, the
\* metadata counts are 0 and the reporter is called once (for a service with at
\* least one rule).
C17_EmptyFileSet ==
    (RunOver /\ Len(runFiles) = 0 /\ runConfig.rules # <<>>) =>
        /\ runOutcome = "resolved"
        /\ runReport.built
        /\ Len(runReport.categories) = Len(runConfig.rules)
        /\ \A k \in 1..Len(runReport.categories) : runReport.categories[k].score = 10000
        /\ runReport.overall = 10000
        /\ WeightNumSum(runReport.categories) = CommonDen(runReport.categories)
        /\ runReport.filesAnalyzed = 0
        /\ runReport.totalMetrics = 0
        /\ runReport.totalFindings = 0
        /\ runReporterCalls = 1

\* No file scanned, the five rules: reported once, exit status 0
C17_Witness ==
    /\ runPc = "exited" /\ runExit = 0
    /\ Len(runFiles) = 0
    /\ runConfig.rules = RuleIds
    /\ runReport.built /\ runReport.overall = 10000
    /\ runReporterCalls = 1

\* claim helper: the weights are further than 0.01 from summing to 1
WeightsOffOne(categories) ==
    LET den == IF categories = <<>> THEN 1 ELSE categories[1].weight.den
        sum == SumSeq([k \in 1..Len(categories) |-> categories[k].weight.num])
    IN  100 * sum > 101 * den \/ 100 * sum < 99 * den

\* C18: when the weights handed to calculateOverall do not sum to 1 within
\* 0.01 the run rejects: no report is built, reporter.generate is never called
\* and the process exits with status 1; a rejected run never reports.
C18_WeightViolationFatal ==
    /\ (RunCollected /\ WeightsOffOne(runCategories)) =>
          /\ RunOver
          /\ runOutcome = "rejected"
    /\ runOutcome = "rejected" =>
          /\ ~runReport.built
          /\ runReporterCalls = 0
          /\ runPc = "exited" => runExit = 1

\* A service without rules analysed a file: rejected, exit status 1
C18_Witness ==
    /\ runPc = "exited" /\ runExit = 1
    /\ runOutcome = "rejected"
    /\ WeightsOffOne(runCategories)
    /\ Len(runFiles) > 0
    /\ runReporterCalls = 0

\* --- the documented scale factors
\* claim helpers: the table of SCORING_FORMULAS.md, and each rule's severity
\* points for the findings just scored
DocumentedScaleFactor(rule) ==
    CASE rule = "complexity" -> 2
      [] rule = "size" -> 2
      [] rule = "type-safety" -> 1
      [] rule = "duplication" -> 3
      [] rule = "circular-dependency" -> 10

TotalSeverityPoints(rule) ==
    CASE rule = "complexity" ->
            10 * CountSeverity("high") + 5 * CountSeverity("medium") + 2 * CountSeverity("low")
      [] rule = "size" ->
            8 * CountSeverity("high") + 4 * CountSeverity("medium") + 2 * CountSeverity("low")
      [] rule = "type-safety" -> 3 * TotalAnyUsages(scFindings)
      [] rule = "duplication" ->
            15 * CountSeverity("high") + 8 * CountSeverity("medium") + 4 * CountSeverity("low")
      [] rule = "circular-dependency" ->
            20 * CountSeverity("high") + 12 * CountSeverity("medium") + 6 * CountSeverity("low")

\* C21: for each of the five rules, with findings and totalFiles = n > 0, the
\* score is 100 minus (severity points / n) times the documented scale factor
\* (Complexity 2, Size 2, Type Safety 1, Duplication 3, Circular Deps 10),
\* clamped to [0, 100].
C21_DocumentedScaleFactors ==
    (/\ scPc = "scored"
     /\ scRule \in {RuleIds[i] : i \in 1..Len(RuleIds)}
     /\ Len(scFindings) > 0
     /\ HasFiles(scContext)) =>
        scScore = MathRound(
            100 * Max(0, 100 * scContext.totalFiles
                            - TotalSeverityPoints(scRule) * DocumentedScaleFactor(scRule)),
            scContext.totalFiles)

\* --- greedy matching
\* claim helpers: the matches of the detection just run, the blocks that have
\* a near-duplicate, the Metrics placed at a block and those counting it
Matches == detectedMatches(codeBlocks)
HasNearDuplicate(i) == \E j \in (1..Len(codeBlocks)) \ {i} : Resemble(i, j)
OriginsOf(i) == {m \in 1..Len(Matches) : Matches[m].origin = i}
CountingMetrics(i) == {m \in 1..Len(Matches) : i \in Matches[m].counted}

\* C22: after detection, every retained block with a near-duplicate among the
\* retained blocks is the block of an emitted Metric or is counted in exactly
\* one emitted Metric, in every encounter order.
C22_EveryNearDuplicateReported ==
    dupPc = "detected" =>
        \A i \in 1..Len(codeBlocks) :
            HasNearDuplicate(i) =>
                \/ OriginsOf(i) # {}
                \/ Cardinality(CountingMetrics(i)) = 1

\* C23: in any detection each retained block is counted by at most one Metric,
\* a block already counted is never the block of a Metric, every Metric has
\* value >= 1 (the number of blocks it counted), the sum of value + 1 over the
\* Metrics is at most the number of retained blocks, and every retained block
\* has at least 50 characters of tokens.
C23_GreedyPartition ==
    /\ \A i \in 1..Len(codeBlocks) : Len(codeBlocks[i].tokens) >= 50
    /\ dupPc = "detected" =>
        /\ Len(dupMetrics) = Len(Matches)
        /\ \A m \in 1..Len(dupMetrics) :
              /\ dupMetrics[m].value = Cardinality(Matches[m].counted)
              /\ dupMetrics[m].node = codeBlocks[Matches[m].origin].startLine
              /\ dupMetrics[m].value >= 1
        /\ \A i \in 1..Len(codeBlocks) :
              /\ Cardinality(CountingMetrics(i)) <= 1
              /\ CountingMetrics(i) # {} => OriginsOf(i) = {}
        /\ SumSeq([m \in 1..Len(dupMetrics) |-> dupMetrics[m].value + 1]) <= Len(codeBlocks)

\* Detection ran over three retained blocks met in the order x, z, y where y
\* resembles both x and z and x does not resemble z: y is counted for x only,
\* and z, met before y, gets no Metric though y resembles it
C23_Witness ==
    /\ dupPc = "detected"
    /\ Len(codeBlocks) = 3
    /\ Resemble(1, 3) /\ Resemble(2, 3) /\ ~Resemble(1, 2)
    /\ Len(dupMetrics) = 1
    /\ dupMetrics[1].value = 1
    /\ dupMetrics[1].node = codeBlocks[1].startLine
    /\ CountingMetrics(3) = {1}

\* --- the cycle a Metric is built from
\* C24: for every Metric pushed, the extracted cycle holds the files of the
\* import cycle just closed, each exactly once and the file whose import
\* closes it included; the Metric's value is their number and its context
\* names exactly those files, in import order.
C24_CycleListsItsFiles ==
    depPc = "detected" =>
        \A m \in 1..Len(depResult.metrics) :
            LET cycle == depResult.lists[m]
                chain == depResult.emitted[m]
            IN  /\ ChainFiles(cycle) = ChainFiles(chain)
                /\ Len(cycle) = Cardinality(ChainFiles(cycle))
                /\ depResult.metrics[m].filePath \in ChainFiles(cycle)
                /\ depResult.metrics[m].value = Cardinality(ChainFiles(chain))
                /\ depResult.metrics[m].context = [k \in 1..Len(chain) |-> getFileName(chain[k])]

\* --- edge extraction
\* claim helpers: the analysed node of a path, and whether its file declares an
\* import of a specifier
NodeOf(filePath) == CHOOSE k \in 1..Len(dependencyGraph) : dependencyGraph[k].filePath = filePath
Declares(filePath, importSpecifier) ==
    /\ filePath \in GraphKeys(dependencyGraph)
    /\ \E m \in 1..Len(depDeclared[NodeOf(filePath)]) :
          depDeclared[NodeOf(filePath)][m] = importSpecifier

\* C25: when /d/a.ts imports './b' and /d/b.ts is analysed, the edge of a.ts
\* targets the key '/d/b.ts' (and likewise for b.ts importing './a'); a cycle
\* between the two siblings is detected; a non-relative specifier gives no edge.
C25_RelativeImportTargetsSibling ==
    /\ (Declares("/d/a.ts", "./b") /\ "/d/b.ts" \in GraphKeys(dependencyGraph))
          => "/d/b.ts" \in ImportsOf(NodeOf("/d/a.ts"))
    /\ (Declares("/d/b.ts", "./a") /\ "/d/a.ts" \in GraphKeys(dependencyGraph))
          => "/d/a.ts" \in ImportsOf(NodeOf("/d/b.ts"))
    /\ (depPc = "detected" /\ Declares("/d/a.ts", "./b") /\ Declares("/d/b.ts", "./a"))
          => Len(depResult.metrics) >= 1
    /\ \A k \in 1..Len(dependencyGraph) :
          Len(dependencyGraph[k].imports)
              = Cardinality({m \in 1..Len(depDeclared[k]) : depDeclared[k][m] # "fs"})

\* --- completeness of the search
\* claim helper: some analysed file is reached again by following imports
HasImportCycle ==
    \E k \in 1..Len(dependencyGraph) :
        dependencyGraph[k].filePath \in ReachedIn(ImportsOf(k), Len(dependencyGraph))

\* C29: the search returns at least one Metric exactly when the graph has a
\* directed import cycle; a file importing itself is a cycle (value 1);
\* an import of a file that was not analysed yields no Metric by itself.
C29_MetricIffCycle ==
    depPc = "detected" =>
        /\ (Len(depResult.metrics) >= 1) <=> HasImportCycle
        /\ \A k \in 1..Len(dependencyGraph) :
              (Len(dependencyGraph) = 1 /\ dependencyGraph[k].filePath \in ImportsOf(k))
                  => (Len(depResult.metrics) >= 1 /\ depResult.metrics[1].value = 1)

\* --- the builder
\* C27: a Metric returned by build() keeps the fields it had when returned,
\* whatever is called on the builder afterwards, and two build() calls return
\* two Metrics (different objects).
C27_BuiltMetricImmutable ==
    /\ \A i \in 1..Len(mbReturned) : mbHeap[mbReturned[i].ref] = mbReturned[i].fields
    /\ \A i, j \in 1..Len(mbReturned) : i # j => mbReturned[i].ref # mbReturned[j].ref

\* --- the reporters
\* C28: reporter.generate leaves the report as the rule loop built it: the
\* findings keep their elements and their order, each reporter reads the
\* findings the rule loop produced, and analyze returns that same report.
C28_ReportersLeaveReport ==
    [][Report => (/\ runReport' = runReport
                  /\ \A k \in 1..Len(runSeen') : runSeen'[k] = runReport.findings)]_vars

\* --- the barrier
\* claim helpers: the advanced metrics of the files analysed so far
RunCircularDeps == detectCircularDependencies(runGraph).metrics
RunDuplicates == detectDuplicates(runBlocks)

\* C26: a rule is evaluated only when every scanned file has been read (and
\* processed or skipped); each rule is handed the same collection, which ends
\* with the circular-dependency and the code-duplication metrics of all files;
\* the report exists only when every rule has been evaluated and scored, and
\* the reporter is called only on a built report.
C26_BarrierBeforeRules ==
    /\ runEvaluated # <<>> =>
          /\ runIndex = Len(runFiles)
          /\ Len(runReads) = Len(runFiles)
          /\ \A k \in 1..Len(runEvaluated) :
                /\ runEvaluated[k] = runEvaluated[1]
                /\ Len(runEvaluated[k]) >= Len(RunCircularDeps) + Len(RunDuplicates)
                /\ SubSeq(runEvaluated[k],
                          Len(runEvaluated[k]) - Len(RunCircularDeps) - Len(RunDuplicates) + 1,
                          Len(runEvaluated[k])) = RunCircularDeps \o RunDuplicates
    /\ runReport.built =>
          /\ Len(runEvaluated) = Len(runConfig.rules)
          /\ Len(runCategories) = Len(runConfig.rules)
    /\ runReporterCalls > 0 => runReport.built

\* Two files analysed, each a copy of the other and importing the other: the
\* five rules were each handed the collection with the cycle's and the
\* duplicate's Metric, and the reporter was called
C26_Witness ==
    /\ runReporterCalls = 1
    /\ Len(runFiles) = 2
    /\ Len(runEvaluated) = 5
    /\ RunCircularDeps # <<>>
    /\ RunDuplicates # <<>>
    /\ Len(runEvaluated[5]) > Len(RunCircularDeps) + Len(RunDuplicates)

\* --- isolation of runs
\* claim helpers: what one call alone makes of a file list: its allMetrics and
\* the report it returns
RECURSIVE AloneMetrics(_, _, _, _)
AloneMetrics(files, k, metrics, analyzers) ==
    IF k > Len(files) THEN AllMetrics(metrics, analyzers)
    ELSE AloneMetrics(files, k + 1, AfterPush(metrics, files[k]), AfterFeed(analyzers, files[k]))
AloneReport(files) ==
    TerminalReporter_generate(
        ReportOf(AloneMetrics(files, 1, <<>>, NewAnalyzers), Len(files)))

\* C30: of two analyze calls on one service, in sequence or interleaved at
\* their awaits, each ends with the metrics, the findings and the score it
\* would have alone on its own files.
C30_RunsIsolated ==
    \A run \in 1..2 :
        /\ twRuns[run].pc \in {"reporting", "settled"} =>
              twRuns[run].metrics = AloneMetrics(twRuns[run].files, 1, <<>>, NewAnalyzers)
        /\ twRuns[run].pc = "settled" =>
              twRuns[run].report = AloneReport(twRuns[run].files)

\* Two interleaved calls have returned: the first scanned two files that copy
\* and import each other and reports the duplicate and the cycle, the second
\* scanned one of these files and reports neither
C30_Witness ==
    /\ twOverlap
    /\ twRuns[1].pc = "settled" /\ twRuns[2].pc = "settled"
    /\ Len(twRuns[1].files) = 2 /\ Len(twRuns[2].files) = 1
    /\ twRuns[2].files[1] = twRuns[1].files[1]
    /\ \E k \in 1..Len(twRuns[1].metrics) : twRuns[1].metrics[k].name = "code-duplication"
    /\ \E k \in 1..Len(twRuns[1].metrics) : twRuns[1].metrics[k].name = "circular-dependency"
    /\ \A k \in 1..Len(twRuns[2].metrics) :
          twRuns[2].metrics[k].name \notin {"code-duplication", "circular-dependency"}
    /\ twRuns[1].report.overall < twRuns[2].report.overall

=============================================================================
